---------------------------- MODULE Spec2Model ----------------------------
(***************************************************************************)
(* Model of the CFTC forecasting scripts                                   *)
(*   src/scripts/predictions_model_v2.py                                   *)
(*   src/scripts/predictions_model_v3.py                                   *)
(*   src/scripts/predictions_model_v4.py                                   *)
(*                                                                         *)
(* Numbers.  Python floats are modelled by fixed-point integers:           *)
(*   - a percentage (inflation, unemployment, volatility, ...) is an       *)
(*     integer number of 1/10000 of a point (1.4 % is 14000);              *)
(*   - a SMIC amount is an integer number of cents;                        *)
(*   - round(x, k) is rounding to the nearest multiple of 10^-k, ties to   *)
(*     the even multiple, as Python's round does on exact values;          *)
(*   - sqrt, exp and sin are tabulated to four decimals.                   *)
(* Dates.  datetime.now() is the run date [y, m, d]; the time of day is    *)
(* never read by the scripts except through comparisons with midnights.    *)
(* Random numbers.  random.seed / random.gauss / random.uniform are a      *)
(* linear congruential generator: a draw is a function of the generator    *)
(* state, which the draw advances.                                         *)
(***************************************************************************)
EXTENDS Integers, Sequences, FiniteSets, TLC

VARIABLES
    now,        \* datetime.now(): the run date [y, m, d]
    rng,        \* state of the process-wide random generator
    call,       \* the function under call and its arguments
    ret,        \* what the call returned (NoRet before it returns)
    files,      \* the persisted store: path -> content of the file
    pc,         \* position of main in its sequence of stages (0: not running)
    mem         \* main's local variables, by name

vars == <<now, rng, call, ret, files, pc, mem>>

\* the variables of a run of main
mainVars == <<files, pc, mem>>

----------------------------------------------------------------------------
(* Arithmetic helpers *)

U == 100 * 100              \* units per percentage point

Abs(n) == IF n < 0 THEN -n ELSE n

Min(a, b) == IF a <= b THEN a ELSE b

Max(a, b) == IF a >= b THEN a ELSE b


\* n / d rounded to the nearest integer, ties to even (d > 0)
RoundDiv(n, d) ==
    LET q == n \div d
        r == n - q * d
    IN  IF 2 * r < d THEN q
        ELSE IF 2 * r > d THEN q + 1
        ELSE IF q % 2 = 0 THEN q ELSE q + 1

\* round(x, 2) and round(x, 1) of a percentage, the result again in 1/10000
Round2(x) == RoundDiv(x, 100) * 100

Round1(x) == RoundDiv(x, 1000) * 1000

RECURSIVE SumSeq(_)
SumSeq(s) == IF s = <<>> THEN 0 ELSE Head(s) + SumSeq(Tail(s))

\* s[a..b] as Python's slice s[a-1:b] (1-based, inclusive, clipped)
Slice(s, a, b) == [i \in 1..(Min(b, Len(s)) - Max(a, 1) + 1) |-> s[Max(a, 1) + i - 1]]

\* s[-k:]
LastK(s, k) == Slice(s, Len(s) - k + 1, Len(s))

Last(s) == s[Len(s)]

\* largest r with r * r <= n, by Newton's iteration
RECURSIVE IsqrtNewton(_, _)
IsqrtNewton(n, x) ==
    LET x2 == (x + n \div x) \div 2
    IN  IF x2 >= x THEN x ELSE IsqrtNewton(n, x2)

Sqrt(n) == IF n <= 0 THEN 0 ELSE IsqrtNewton(n, n)

\* What a call yields: a value, or the exception it raises
Ok(v) == [ok |-> TRUE, v |-> v]

Raise(e) == [ok |-> FALSE, exc |-> e]

----------------------------------------------------------------------------
(* Calendar: datetime, timedelta, strftime.  Ordinals count the days from *)
(* 2023-12-31.                                                            *)

IsLeap(y) == (y % 4 = 0 /\ y % 100 # 0) \/ y % 400 = 0

DaysInMonth(y, m) ==
    IF m = 2 THEN (IF IsLeap(y) THEN 29 ELSE 28)
    ELSE IF m \in {4, 6, 9, 11} THEN 30 ELSE 31

RECURSIVE DaysBeforeMonth(_, _)
DaysBeforeMonth(y, m) ==
    IF m = 1 THEN 0 ELSE DaysBeforeMonth(y, m - 1) + DaysInMonth(y, m - 1)

RECURSIVE DaysBeforeYear(_)
DaysBeforeYear(y) ==
    IF y <= 2024 THEN 0
    ELSE DaysBeforeYear(y - 1) + (IF IsLeap(y - 1) THEN 366 ELSE 365)

Date(y, m, d) == [y |-> y, m |-> m, d |-> d]

ToOrdinal(dt) == DaysBeforeYear(dt.y) + DaysBeforeMonth(dt.y, dt.m) + dt.d

RECURSIVE YearOfOrdinal(_, _)
YearOfOrdinal(n, y) ==
    IF n <= DaysBeforeYear(y + 1) THEN y ELSE YearOfOrdinal(n, y + 1)

RECURSIVE MonthOfOrdinal(_, _, _)
MonthOfOrdinal(n, y, m) ==
    IF n <= DaysBeforeMonth(y, m) + DaysInMonth(y, m) THEN m
    ELSE MonthOfOrdinal(n, y, m + 1)

FromOrdinal(n) ==
    LET y == YearOfOrdinal(n, 2024)
        r == n - DaysBeforeYear(y)
        m == MonthOfOrdinal(r, y, 1)
    IN  Date(y, m, r - DaysBeforeMonth(y, m))

\* dt + timedelta(days = k)
AddDays(dt, k) == FromOrdinal(ToOrdinal(dt) + k)

\* A "%Y-%m" label, and the f"{year}-{month:02d}" of v3 and v4, as the pair
\* <<year, month>>: the strings order as the pairs do (four-digit years).
YearMonth(y, m) == <<y, m>>

\* f"T{quarter} {year}" as the pair <<year, quarter>>
QuarterLabel(y, q) == <<y, q>>

\* calendar order of two labels
LabelBefore(a, b) == a[1] < b[1] \/ (a[1] = b[1] /\ a[2] < b[2])

\* order of two dates
DateBefore(a, b) == ToOrdinal(a) < ToOrdinal(b)

----------------------------------------------------------------------------
(* Series statistics: predictions_model_v2.py, FONCTIONS UTILITAIRES *)

NoRet == [fn |-> "none"]

\* main is not running: no store, no locals
NoMain == files = <<>> /\ pc = 0 /\ mem = <<>>

\* A regression result: slope = sn / sd, intercept = bn / bd
Line(sn, sd, bn, bd) == [sn |-> sn, sd |-> sd, bn |-> bn, bd |-> bd]

SumXY(x, y) == SumSeq([i \in 1..Min(Len(x), Len(y)) |-> x[i] * y[i]])

SumX2(x) == SumSeq([i \in 1..Len(x) |-> x[i] * x[i]])

\* Faulty variant: the zero-denominator branch returns the sum of y, not its mean
linear_regression_nomean(x, y) ==
    LET n     == Len(x)
        sum_x == SumSeq(x)
        sum_y == SumSeq(y)
        denom == n * SumX2(x) - sum_x * sum_x
    IN  IF n < 2 THEN Line(0, 1, IF y # <<>> THEN y[1] ELSE 0, 1)
        ELSE IF denom = 0 THEN Line(0, 1, sum_y, 1)
        ELSE Line(n * SumXY(x, y) - sum_x * sum_y, denom,
                  sum_y * denom - (n * SumXY(x, y) - sum_x * sum_y) * sum_x,
                  n * denom)

linear_regression(x, y) ==
    LET n      == Len(x)
        sum_x  == SumSeq(x)
        sum_y  == SumSeq(y)
        sum_xy == SumXY(x, y)
        sum_x2 == SumX2(x)
        denom  == n * sum_x2 - sum_x * sum_x
        num    == n * sum_xy - sum_x * sum_y
    IN  IF n < 2 THEN Line(0, 1, IF y # <<>> THEN y[1] ELSE 0, 1)
        ELSE IF denom = 0 THEN Line(0, 1, sum_y, n)
        ELSE \* slope = num / denom, intercept = (sum_y - slope * sum_x) / n
             Line(num, denom, sum_y * denom - num * sum_x, n * denom)

\* A quotient n / d kept exact
Ratio(n, d) == [n |-> n, d |-> d]

\* moving_average(data, window): the entries as exact quotients; a series
\* shorter than the window is returned as it is
moving_average(data, window) ==
    IF Len(data) < window THEN [k \in 1..Len(data) |-> Ratio(data[k], 1)]
    ELSE [k \in 1..Len(data) |->
            \* i = k - 1, start = max(0, i - window + 1), data[start:i+1]
            LET start == Max(0, (k - 1) - window + 1)
            IN  Ratio(SumSeq(Slice(data, start + 1, k)), (k - 1) - start + 1)]

\* statistics.stdev of values given in 1/10000 (multiples of 1/100), to three
\* decimals; fewer than two values raise StatisticsError
Stdev(values) ==
    LET n  == Len(values)
        h  == [i \in 1..n |-> values[i] \div 100]
        ss == n * SumSeq([i \in 1..n |-> h[i] * h[i]]) - SumSeq(h) * SumSeq(h)
    IN  IF n < 2 THEN Raise("StatisticsError")
        ELSE Ok(Sqrt((ss * 100) \div (n * (n - 1))) * 10)

calculate_volatility(data) ==
    LET variations == [i \in 1..(Len(data) - 1) |-> data[i + 1] - data[i]]
    IN  IF Len(data) < 3 THEN 5000
        ELSE IF Len(variations) > 1 THEN Stdev(variations).v ELSE 5000

\* math.sqrt(k), k = 1..13, in 1/10000
SqrtTable ==
    <<10000, 14142, 17321, 20000, 22361, 24495, 26458, 28284, 30000, 31623,
      33166, 34641, 36056>>

\* z-scores in 1/1000
Z95 == 1960

Z90 == 1645

\* The interval of one prediction
Bounds(lo, up) == [lower |-> lo, upper |-> up]

confidence_interval_at(pred, i, volatility, confidence) ==
    LET z == IF confidence = 95 THEN Z95 ELSE Z90
        \* uncertainty = volatility * z * math.sqrt(i + 1) / 2, i from 0
        uncertainty == RoundDiv(RoundDiv(volatility * z, 1000) * SqrtTable[i + 1], 2 * U)
    IN  Bounds(Round2(Max(pred - uncertainty, -5 * U)), Round2(pred + uncertainty))

\* confidence_interval(predictions, volatility, confidence): [lower, upper]
confidence_interval(predictions, volatility, confidence) ==
    LET b == [k \in 1..Len(predictions) |->
                confidence_interval_at(predictions[k], k - 1, volatility, confidence)]
    IN  [lower |-> [k \in 1..Len(predictions) |-> b[k].lower],
         upper |-> [k \in 1..Len(predictions) |-> b[k].upper]]

----------------------------------------------------------------------------
(* predictions_model_v2.py: predict_inflation_monthly *)

\* math.exp(-i / 6), i = 1..12, in 1/10000
ExpDecayTable ==
    <<8465, 7165, 6065, 5134, 4346, 3679, 3114, 2636, 2231, 1889, 1599, 1353>>

\* math.sin((month - 3) * math.pi / 6), month = 1..12, in 1/10000
SinTable ==
    <<-8660, -5000, 0, 5000, 8660, 10000, 8660, 5000, 0, -5000, -8660, -10000>>

EnergyImpactV2(energy_outlook) ==
    IF energy_outlook = "hausse" THEN 3000
    ELSE IF energy_outlook = "baisse" THEN -3000 ELSE 0

\* month_date = now + timedelta(days=30 * i)
V2MonthDate(dt, i) == AddDays(dt, 30 * i)

\* Iterations i..horizon of the loop: a sequence of [period, pred]
RECURSIVE V2InflationLoop(_, _, _, _, _, _)
V2InflationLoop(dt, i, horizon_months, current, energy_impact, slope) ==
    IF i > horizon_months THEN <<>>
    ELSE LET month_date == V2MonthDate(dt, i)
             target     == 2 * U
             c1 == current + RoundDiv(8 * (target - current), 100)
             c2 == c1 + RoundDiv(energy_impact * ExpDecayTable[i], 10 * U)
             c3 == c2 + RoundDiv(5 * slope.sn, 100 * slope.sd)
             seasonal == RoundDiv(SinTable[month_date.m], 10)
             pred == Max(-1 * U, Min(10 * U, c3 + seasonal))
         IN  <<[period |-> YearMonth(month_date.y, month_date.m), pred |-> Round2(pred)]>>
             \o V2InflationLoop(dt, i + 1, horizon_months, c3, energy_impact, slope)

Field(s, name) == [k \in 1..Len(s) |-> s[k][name]]

predict_inflation_monthly(dt, historical_annual, current_monthly, energy_outlook, horizon_months) ==
    LET values == Field(LastK(historical_annual, 5), "inflation")
        slope  == IF Len(values) < 2 THEN Line(0, 1, 0, 1)
                  ELSE linear_regression([k \in 1..Len(values) |-> k - 1], values)
        steps  == V2InflationLoop(dt, 1, horizon_months, current_monthly,
                                  EnergyImpactV2(energy_outlook), slope)
        predictions == Field(steps, "pred")
        volatility  == IF Len(values) > 2 THEN calculate_volatility(values) ELSE 8000
        ci == confidence_interval(predictions, volatility, 95)
    IN  [predictions |-> predictions,
         lower_bound |-> ci.lower,
         upper_bound |-> ci.upper,
         periods |-> Field(steps, "period"),
         current |-> current_monthly,
         target_bce |-> 2 * U,
         energy_outlook |-> energy_outlook]

----------------------------------------------------------------------------
(* predictions_model_v2.py: predict_unemployment_quarterly *)

\* OKUN_COEFFICIENT = -0.35 in 1/100, POTENTIAL_GROWTH = 1.3
OKUN_COEFFICIENT == -35

POTENTIAL_GROWTH == 13000

RECURSIVE V2UnemploymentLoop(_, _, _, _, _, _, _)
V2UnemploymentLoop(i, horizon_quarters, quarter, year, current, impact, recent_trend) ==
    IF i > horizon_quarters THEN <<>>
    ELSE LET q2 == IF quarter + 1 > 4 THEN 1 ELSE quarter + 1
             y2 == IF quarter + 1 > 4 THEN year + 1 ELSE year
             delta == RoundDiv(impact, 4) + RoundDiv(3 * recent_trend, 10)
             c2 == Max(5 * U, Min(12 * U, current + delta))
         IN  <<[period |-> QuarterLabel(y2, q2), pred |-> Round1(c2)]>>
             \o V2UnemploymentLoop(i + 1, horizon_quarters, q2, y2, c2, impact, delta)

\* business_climate is the index in 1/10000 (100 is 1000000)
predict_unemployment_quarterly(historical, gdp_forecast, business_climate, horizon_quarters) ==
    LET values == Field(LastK(historical, 8), "taux")
        n == Len(values)
        recent_trend == IF n >= 4 THEN RoundDiv(values[n] - values[n - 3], 4) ELSE 0
        okun_impact == RoundDiv(OKUN_COEFFICIENT * (gdp_forecast - POTENTIAL_GROWTH), 100)
        climate_impact == RoundDiv((100 * U - business_climate) * 15, 1000)
        last_period == Last(historical).trimestre
        steps == V2UnemploymentLoop(1, horizon_quarters, last_period[2], last_period[1],
                                    values[n], okun_impact + climate_impact, recent_trend)
        predictions == Field(steps, "pred")
        volatility == RoundDiv(calculate_volatility(values), 2)
        ci == confidence_interval(predictions, volatility, 95)
    IN  IF n < 2 THEN [error |-> "Donnees historiques insuffisantes"]
        ELSE [predictions |-> predictions,
              lower_bound |-> ci.lower,
              upper_bound |-> ci.upper,
              periods |-> Field(steps, "period"),
              current |-> values[n]]

----------------------------------------------------------------------------
(* JSON values read from the dataset: a number, or a string holding one *)

Num(v) == [t |-> "num", v |-> v]

Str(v) == [t |-> "str", v |-> v]

\* Python truthiness: 0 is falsy, a non-empty string is truthy
Truthy(x) == x.t = "str" \/ x.v # 0

\* x or default
OrDefault(x, default) == IF Truthy(x) THEN x ELSE Num(default)

----------------------------------------------------------------------------
(* predictions_model_v3.py *)

VOLATILITY_V3 == [inflation |-> 4000, chomage |-> 3000, pib |-> 5000]

SMIC_INFLATION_THRESHOLD == 2 * U

\* math.sqrt(k / 12), k = 1..13, in 1/10000
SqrtOver12Table ==
    <<2887, 4082, 5000, 5774, 6455, 7071, 7638, 8165, 8660, 9129, 9574, 10000, 10408>>

\* the confidence argument is accepted and not read: z = 1.645
calculate_confidence_bounds_at(pred, i, annual_volatility, confidence) ==
    LET z == Z90
        months_ahead == i + 1
        \* annual_volatility * z * min(math.sqrt(months_ahead / 12), 1.5)
        uncertainty == RoundDiv(RoundDiv(annual_volatility * z, 1000)
                                * Min(SqrtOver12Table[months_ahead], 15000), U)
    IN  Bounds(Round1(Max(pred - uncertainty, RoundDiv(pred, 2))),
               Round1(pred + uncertainty))

calculate_confidence_bounds(predictions, annual_volatility, confidence) ==
    LET b == [k \in 1..Len(predictions) |->
                calculate_confidence_bounds_at(predictions[k], k - 1, annual_volatility,
                                               confidence)]
    IN  [lower |-> [k \in 1..Len(predictions) |-> b[k].lower],
         upper |-> [k \in 1..Len(predictions) |-> b[k].upper]]

\* get_current_month_year()
get_current_month_year(dt) == <<dt.m, dt.y>>

\* Iterations i..horizon-1 of the loop; a step is [period, pred, weight] or,
\* when the target is a string, the TypeError of target - current
RECURSIVE V3InflationLoop(_, _, _, _, _, _, _, _)
V3InflationLoop(i, horizon_months, month, year, current, months_to_end_2026, target_2026, target_2027) ==
    IF i >= horizon_months THEN <<>>
    ELSE LET m2 == IF month + 1 > 12 THEN 1 ELSE month + 1
             y2 == IF month + 1 > 12 THEN year + 1 ELSE year
             target == IF y2 <= 2026 THEN target_2026 ELSE target_2027
             \* progress = pn / pd, already min(progress, 1.0)
             pd == IF y2 <= 2026 THEN Max(months_to_end_2026, 1) ELSE 12
             pn == Min(IF y2 <= 2026 THEN i ELSE i - months_to_end_2026, pd)
             \* weight 0.3 + 0.7 * progress = wn / (10 * pd)
             wn == 3 * pd + 7 * pn
             pred == current + RoundDiv((target.v - current) * wn, 10 * pd)
         IN  IF target.t = "str" THEN <<[raised |-> "TypeError"]>>
             ELSE <<[raised |-> "none", period |-> YearMonth(y2, m2),
                     pred |-> Round1(pred), wn |-> wn, wd |-> 10 * pd,
                     target |-> target.v, from |-> current, to |-> pred]>>
                  \o V3InflationLoop(i + 1, horizon_months, m2, y2, pred,
                                     months_to_end_2026, target_2026, target_2027)

Raised(steps) == {k \in 1..Len(steps) : steps[k].raised # "none"}

predict_inflation(dt, current_inflation, bdf_forecast_2026, bdf_forecast_2027, horizon_months) ==
    LET month == get_current_month_year(dt)[1]
        year  == get_current_month_year(dt)[2]
        months_to_end_2026 == IF year = 2026 THEN Max(1, 12 - month + 1) ELSE 12
        target_2026 == OrDefault(bdf_forecast_2026, 14000)
        target_2027 == OrDefault(bdf_forecast_2027, 16000)
        steps == V3InflationLoop(0, horizon_months, month, year, current_inflation,
                                 months_to_end_2026, target_2026, target_2027)
        predictions == Field(steps, "pred")
        ci == calculate_confidence_bounds(predictions, VOLATILITY_V3.inflation, 90)
    IN  IF Raised(steps) # {} THEN Raise("TypeError")
        ELSE Ok([predictions |-> predictions,
                 lower_bound |-> ci.lower,
                 upper_bound |-> ci.upper,
                 periods |-> Field(steps, "period"),
                 steps |-> steps,
                 sources |-> [actuel |-> current_inflation,
                              bdf_2026 |-> target_2026.v,
                              bdf_2027 |-> target_2027.v]])

RECURSIVE V3UnemploymentLoop(_, _, _, _, _, _, _)
V3UnemploymentLoop(i, horizon_quarters, q, y, current, target_2026, target_2027) ==
    IF i >= horizon_quarters THEN <<>>
    ELSE LET q2 == IF q + 1 > 4 THEN 1 ELSE q + 1
             y2 == IF q + 1 > 4 THEN y + 1 ELSE y
             target == IF y2 <= 2026 THEN target_2026 ELSE target_2027
             \* progress = (i + 1) / horizon_quarters, times 0.8
             pred == current + RoundDiv((target.v - current) * (i + 1) * 8,
                                        horizon_quarters * 10)
         IN  IF target.t = "str" THEN <<[raised |-> "TypeError"]>>
             ELSE <<[raised |-> "none", period |-> QuarterLabel(y2, q2),
                     pred |-> Round1(pred)]>>
                  \o V3UnemploymentLoop(i + 1, horizon_quarters, q2, y2, pred,
                                        target_2026, target_2027)

predict_unemployment(dt, current_unemployment, bdf_forecast_2026, bdf_forecast_2027, horizon_quarters) ==
    LET month == get_current_month_year(dt)[1]
        year  == get_current_month_year(dt)[2]
        current_quarter == (month - 1) \div 3 + 1
        target_2026 == OrDefault(bdf_forecast_2026, 77000)
        target_2027 == OrDefault(bdf_forecast_2027, 76000)
        steps == V3UnemploymentLoop(0, horizon_quarters, current_quarter, year,
                                    current_unemployment, target_2026, target_2027)
        predictions == Field(steps, "pred")
        ci == calculate_confidence_bounds(predictions, VOLATILITY_V3.chomage, 90)
    IN  IF Raised(steps) # {} THEN Raise("TypeError")
        ELSE Ok([predictions |-> predictions,
                 lower_bound |-> ci.lower,
                 upper_bound |-> ci.upper,
                 periods |-> Field(steps, "period"),
                 sources |-> [actuel |-> current_unemployment,
                              bdf_2026 |-> target_2026.v,
                              bdf_2027 |-> target_2027.v]])

----------------------------------------------------------------------------
(* The random generator: random.seed, random.gauss, random.uniform *)

RngModulus == 2^16 + 1

\* Faulty variant: the seed is the integer YYYYMM, the same all month
Seed_month(dt) == (dt.y * 100 + dt.m) % RngModulus

\* random.seed(int(now.strftime('%Y%m%d')))
Seed(dt) == (dt.y * 10000 + dt.m * 100 + dt.d) % RngModulus

RngNext(g) == (g * 75 + 74) % RngModulus

\* standard normal deviates, in hundredths
GaussTable == <<-164, -104, -67, -39, -13, 13, 39, 67, 104, 164>>

\* random.gauss(0, sigma) drawn in generator state g
Gauss(g, sigma) == RoundDiv(sigma * GaussTable[((g \div 8) % Len(GaussTable)) + 1], 100)

\* random.uniform(-0.2, 0.2) drawn in generator state g
UniformTable == <<-2000, -1000, 0, 1000, 2000>>

Uniform02(g) == UniformTable[((g \div 8) % Len(UniformTable)) + 1]

----------------------------------------------------------------------------
(* predictions_model_v4.py: configuration and utilities *)

N_SIMULATIONS == 5          \* 1000 in the source; the model simulates fewer paths

HORIZON_MONTHS == 12

HORIZON_QUARTERS == 4

VOLATILITY_V4 == [inflation |-> 5000, chomage |-> 4000, pib |-> 8000]

SEASONAL_INFLATION ==
    <<1000, 0, 0, 500, 0, 0, 800, 800, 1200, 0, 0, -500>>

NoSeasonal == <<>>

SMIC_AUTO_THRESHOLD == 2 * U

Sqrt12 == 34641             \* math.sqrt(12), in 1/10000

Sorted(data) == SortSeq(data, LAMBDA a, b : a < b)

\* Faulty variant: the percentile is read from the data as given, not from a sorted copy
percentile_unsorted(data, p) ==
    LET n == Len(data)
        K == (n - 1) * p
        f == K \div 100
        c == IF K % 100 = 0 THEN f ELSE f + 1
    IN  IF n = 0 THEN Raise("IndexError")
        ELSE IF f = c THEN Ok(data[f + 1])
        ELSE Ok((data[f + 1] * (c * 100 - K) + data[c + 1] * (K - f * 100)) \div 100)

\* percentile(data, p): k = (len - 1) * p / 100 is K / 100; Python's [-1] of an
\* empty list raises IndexError
percentile(data, p) ==
    LET sorted_data == Sorted(data)
        n == Len(data)
        K == (n - 1) * p
        f == K \div 100
        c == IF K % 100 = 0 THEN f ELSE f + 1
    IN  IF n = 0 THEN Raise("IndexError")
        ELSE IF f = c THEN Ok(sorted_data[f + 1])
        ELSE Ok(RoundDiv(sorted_data[f + 1] * (c * 100 - K)
                         + sorted_data[c + 1] * (K - f * 100), 100))

\* get_month_year(): (month, year) of the run date
get_month_year(dt) == <<dt.m, dt.y>>

----------------------------------------------------------------------------
(* predictions_model_v4.py: monte_carlo_simulation *)

\* One trajectory after the initial value: <<path, generator state>>
RECURSIVE McPath(_, _, _, _, _, _, _, _)
McPath(prev, target, volatility, speed, seasonal_factors, month, left, g) ==
    IF left = 0 THEN <<(<<>>), g>>
    ELSE LET m2          == (month % 12) + 1
             drift       == RoundDiv(speed * (target - prev), 100)
             monthly_vol == RoundDiv(volatility * U, Sqrt12)
             shock       == Gauss(g, monthly_vol)
             seasonal    == IF seasonal_factors # <<>> THEN seasonal_factors[m2] ELSE 0
             next_val    == Max(-2 * U, Min(prev + drift + shock + seasonal, 15 * U))
             v           == Round2(next_val)
             rest        == McPath(v, target, volatility, speed, seasonal_factors,
                                   m2, left - 1, RngNext(g))
         IN  <<(<<v>>) \o rest[1], rest[2]>>

\* The n_sims trajectories: <<trajectories, generator state>>
RECURSIVE McTrajectories(_, _, _, _, _, _, _, _, _)
McTrajectories(current, target, volatility, horizon, n, speed, seasonal_factors, start_month, g) ==
    IF n = 0 THEN <<(<<>>), g>>
    ELSE LET one  == McPath(current, target, volatility, speed, seasonal_factors,
                            start_month, horizon, g)
             rest == McTrajectories(current, target, volatility, horizon, n - 1, speed,
                                    seasonal_factors, start_month, one[2])
         IN  <<(<<one[1]>>) \o rest[1], rest[2]>>

\* statistics.stdev of values given in 1/10000 (multiples of 1/100), rounded
\* to 2 decimals; fewer than two values raise StatisticsError
StdevRound2(values) ==
    LET n  == Len(values)
        h  == [i \in 1..n |-> values[i] \div 100]
        ss == n * SumSeq([i \in 1..n |-> h[i] * h[i]]) - SumSeq(h) * SumSeq(h)
    IN  IF n < 2 THEN Raise("StatisticsError")
        ELSE Ok(((Sqrt((4 * ss) \div (n * (n - 1))) + 1) \div 2) * 100)

\* sum(1 for v in s if v < x), sum(1 for v in s if v > x)
CountBelow(s, x) == Cardinality({i \in 1..Len(s) : s[i] < x})

CountAbove(s, x) == Cardinality({i \in 1..Len(s) : s[i] > x})

\* round(count / n_sims * 100, 1), in tenths of a percent
Fraction(count, n) == RoundDiv(count * 1000, n)

\* The statistics of step h
McStep(trajectories, h) ==
    LET values_at_h == [t \in 1..Len(trajectories) |-> trajectories[t][h]]
        q10 == percentile(values_at_h, 10)
        q25 == percentile(values_at_h, 25)
        q50 == percentile(values_at_h, 50)
        q75 == percentile(values_at_h, 75)
        q90 == percentile(values_at_h, 90)
        sd  == StdevRound2(values_at_h)
    IN  IF ~q10.ok THEN q10
        ELSE IF ~sd.ok THEN sd
        ELSE Ok([p10 |-> Round1(q10.v), p25 |-> Round1(q25.v), p50 |-> Round1(q50.v),
                 p75 |-> Round1(q75.v), p90 |-> Round1(q90.v),
                 mean |-> RoundDiv(SumSeq(values_at_h), Len(values_at_h) * 1000) * 1000,
                 std |-> sd.v])

\* The results dictionary built from the per-step statistics `steps` and the
\* trajectories' final values; Ok(results) or the exception raised
McResults(steps, final_values, horizon, n_sims) ==
    LET bad == {h \in 1..horizon : ~steps[h].ok}
        Col(name) == [h \in 1..horizon |-> steps[h].v[name]]
    IN  IF bad # {} THEN steps[CHOOSE h \in bad : \A k \in bad : h <= k]
        ELSE IF n_sims = 0 THEN Raise("ZeroDivisionError")
        ELSE Ok([p10 |-> Col("p10"), p25 |-> Col("p25"), p50 |-> Col("p50"),
                 p75 |-> Col("p75"), p90 |-> Col("p90"),
                 mean |-> Col("mean"), std |-> Col("std"),
                 probabilities |->
                   [below_1pct |-> Fraction(CountBelow(final_values, U), n_sims),
                    below_2pct |-> Fraction(CountBelow(final_values, 2 * U), n_sims),
                    above_2pct |-> Fraction(CountAbove(final_values, 2 * U), n_sims),
                    above_3pct |-> Fraction(CountAbove(final_values, 3 * U), n_sims)]])

\* The statistics of the trajectories tr = <<trajectories, generator state>>
McSummary(tr, horizon, n_sims) ==
    [rng |-> tr[2],
     final_values |-> [t \in 1..n_sims |-> Last(tr[1][t])],
     res |-> McResults([h \in 1..horizon |-> McStep(tr[1], h)],
                       [t \in 1..n_sims |-> Last(tr[1][t])], horizon, n_sims)]

\* monte_carlo_simulation(...) in generator state g, for horizon >= 1:
\* [res, rng, final_values]; start_month = 0 stands for None
monte_carlo_simulation(dt, current, target, volatility, horizon, n_sims, mean_reversion_speed, seasonal_factors, start_month, g) ==
    McSummary(McTrajectories(current, target, volatility, horizon, n_sims,
                             mean_reversion_speed, seasonal_factors,
                             IF start_month = 0 THEN get_month_year(dt)[1]
                             ELSE start_month, g),
              horizon, n_sims)

----------------------------------------------------------------------------
(* predictions_model_v4.py: predict_inflation_v4, predict_chomage_v4 *)

EnergyAdjustmentV4(energie_outlook) ==
    IF energie_outlook = "hausse" THEN 3000
    ELSE IF energie_outlook = "baisse" THEN -2000 ELSE 0

\* The "%Y-%m" labels of the horizon: the months after the run month
MonthPeriods(month, year, n) ==
    [k \in 1..n |-> YearMonth(year + (month + k - 1) \div 12, ((month + k - 1) % 12) + 1)]

\* The "T{q} {y}" labels of the horizon: the quarters after the run quarter
QuarterPeriods(quarter, year, n) ==
    [k \in 1..n |-> QuarterLabel(year + (quarter + k - 1) \div 4,
                                 ((quarter + k - 1) % 4) + 1)]

Tendance(prev, current) ==
    IF prev > current + 2000 THEN "hausse"
    ELSE IF prev < current - 2000 THEN "baisse" ELSE "stable"

\* The dictionary predict_inflation_v4 returns, given the simulation's results
InflationV4Result(month, year, current_inflation, base_target, climat_adjustment, energy_adjustment, adjusted_target, mc_results, final_values) ==
    [actuel |-> current_inflation,
     prevision_6m |-> mc_results.p50[6],
     prevision_12m |-> Last(mc_results.p50),
     tendance |-> Tendance(Last(mc_results.p50), current_inflation),
     mensuel |-> [predictions |-> mc_results.p50,
                  lower_bound |-> mc_results.p10,
                  upper_bound |-> mc_results.p90,
                  p25 |-> mc_results.p25,
                  p75 |-> mc_results.p75,
                  periods |-> MonthPeriods(month, year, HORIZON_MONTHS)],
     probabilites |->
         [inflation_sous_2pct |-> mc_results.probabilities.below_2pct,
          inflation_cible_bce |-> mc_results.probabilities.below_2pct,
          inflation_au_dessus_3pct |-> mc_results.probabilities.above_3pct],
     facteurs |-> [cible_bdf |-> base_target,
                   ajustement_climat |-> Round2(climat_adjustment),
                   ajustement_energie |-> energy_adjustment,
                   cible_ajustee |-> Round2(adjusted_target)],
     final_values |-> final_values]

InflationV4After(mc, month, year, current_inflation, base_target, climat_adjustment, energy_adjustment, adjusted_target) ==
    IF ~mc.res.ok THEN [rng |-> mc.rng, res |-> mc.res]
    ELSE [rng |-> mc.rng,
          res |-> Ok(InflationV4Result(month, year, current_inflation, base_target,
                                       climat_adjustment, energy_adjustment,
                                       adjusted_target, mc.res.v, mc.final_values))]

InflationV4Simulate(dt, month, year, current_inflation, base_target, climat_adjustment, energy_adjustment, adjusted_target, g) ==
    InflationV4After(
        monte_carlo_simulation(dt, current_inflation, adjusted_target,
                               VOLATILITY_V4.inflation, HORIZON_MONTHS, N_SIMULATIONS,
                               12, SEASONAL_INFLATION, month, g),
        month, year, current_inflation, base_target, climat_adjustment,
        energy_adjustment, adjusted_target)

\* climat_affaires is the index in 1/10000 (100 is 1000000); the result is
\* [res, rng]: Ok(forecast) or the exception, and the generator state
predict_inflation_v4(dt, current_inflation, bdf_target_2026, bdf_target_2027, climat_affaires, energie_outlook, g) ==
    LET month == get_month_year(dt)[1]
        year  == get_month_year(dt)[2]
        base_target == IF year <= 2026 THEN bdf_target_2026 ELSE bdf_target_2027
        climat_adjustment == RoundDiv(climat_affaires - 100 * U, 100)
        energy_adjustment == EnergyAdjustmentV4(energie_outlook)
    IN  IF base_target.t = "str" THEN [rng |-> g, res |-> Raise("TypeError")]
        ELSE InflationV4Simulate(dt, month, year, current_inflation, base_target.v,
                                 climat_adjustment, energy_adjustment,
                                 Max(0, Min(base_target.v + climat_adjustment
                                            + energy_adjustment, 5 * U)), g)

ChomageV4Result(quarter, year, current_chomage, base_target, climat_adjustment, recrutement_adjustment, adjusted_target, mc_results, final_values) ==
    [actuel |-> current_chomage,
     prevision_q4 |-> Last(mc_results.p50),
     tendance |-> Tendance(Last(mc_results.p50), current_chomage),
     trimestriel |-> [predictions |-> mc_results.p50,
                      lower_bound |-> mc_results.p10,
                      upper_bound |-> mc_results.p90,
                      p25 |-> mc_results.p25,
                      p75 |-> mc_results.p75,
                      periods |-> QuarterPeriods(quarter, year, HORIZON_QUARTERS)],
     probabilites |->
         [chomage_sous_7pct |->
              Fraction(CountBelow(mc_results.p50, 7 * U),
                       Len(mc_results.p50)),
          chomage_au_dessus_8pct |->
              Fraction(CountAbove(mc_results.p50, 8 * U),
                       Len(mc_results.p50))],
     facteurs |-> [cible_bdf |-> base_target,
                   ajustement_climat |-> Round2(climat_adjustment),
                   ajustement_recrutement |-> Round2(recrutement_adjustment),
                   cible_ajustee |-> Round2(adjusted_target)],
     final_values |-> final_values]

ChomageV4After(mc, quarter, year, current_chomage, base_target, climat_adjustment, recrutement_adjustment, adjusted_target) ==
    IF ~mc.res.ok THEN [rng |-> mc.rng, res |-> mc.res]
    ELSE [rng |-> mc.rng,
          res |-> Ok(ChomageV4Result(quarter, year, current_chomage, base_target,
                                     climat_adjustment, recrutement_adjustment,
                                     adjusted_target, mc.res.v, mc.final_values))]

ChomageV4Simulate(dt, quarter, year, current_chomage, base_target, climat_adjustment, recrutement_adjustment, adjusted_target, g) ==
    ChomageV4After(
        monte_carlo_simulation(dt, current_chomage, adjusted_target,
                               VOLATILITY_V4.chomage, HORIZON_QUARTERS, N_SIMULATIONS,
                               20, NoSeasonal, 0, g),
        quarter, year, current_chomage, base_target, climat_adjustment,
        recrutement_adjustment, adjusted_target)

\* difficultes_recrutement is a percentage in 1/10000
predict_chomage_v4(dt, current_chomage, bdf_target_2026, bdf_target_2027, climat_affaires, difficultes_recrutement, g) ==
    LET month   == get_month_year(dt)[1]
        year    == get_month_year(dt)[2]
        quarter == (month - 1) \div 3 + 1
        base_target == IF year <= 2026 THEN bdf_target_2026 ELSE bdf_target_2027
        climat_adjustment == RoundDiv((100 * U - climat_affaires) * 2, 100)
        recrutement_adjustment == RoundDiv(50 * U - difficultes_recrutement, 100)
    IN  IF base_target.t = "str" THEN [rng |-> g, res |-> Raise("TypeError")]
        ELSE ChomageV4Simulate(dt, quarter, year, current_chomage, base_target.v,
                               climat_adjustment, recrutement_adjustment,
                               Max(5 * U, Min(base_target.v + climat_adjustment
                                              + recrutement_adjustment, 12 * U)), g)

----------------------------------------------------------------------------
(* The SMIC forecasters.  Amounts are in cents; an event's probability is  *)
(* in hundredths (100 is 1.0); its date is a Date, which orders as the     *)
(* "%Y-%m-%d" string does.                                                 *)

SmicEvent(date, type, probability, increase_pct, new_brut, new_net, confidence) ==
    [date |-> date, type |-> type, probability |-> probability,
     estimated_increase_pct |-> increase_pct,
     estimated_new_smic_brut |-> new_brut,
     estimated_new_smic_net |-> new_net,
     confidence |-> confidence]

\* round(brut * (1 + increase_pct / 100), 2), increase_pct having one decimal
Revalue(brut, increase_pct) == RoundDiv(brut * (1000 + increase_pct \div 1000), 1000)

\* round(new_brut * 0.792, 2)
NetOf(new_brut) == RoundDiv(new_brut * 792, 1000)

\* round((running_brut / current_brut - 1) * 100, 1)
TotalIncrease(running_brut, current_brut) ==
    RoundDiv((running_brut - current_brut) * 1000, current_brut) * 1000

\* Faulty variant: the floor is not applied
Clip_nofloor(lo, x, hi) == Min(hi, x)

\* x clipped to [lo, hi]: max(lo, min(hi, x))
Clip(lo, x, hi) == Max(lo, Min(hi, x))

\* datetime(year, month, 1) + timedelta(days=32), moved to the first of its month
FirstOfNextMonth(period) ==
    IF period[2] = 12 THEN Date(period[1] + 1, 1, 1) ELSE Date(period[1], period[2] + 1, 1)

\* Faulty variant: the events stay in the order they were added
SortByDate_unsorted(events) == events

\* events.sort(key=lambda x: x['date']): a stable sort
RECURSIVE InsertByDate(_, _)
InsertByDate(sorted, e) ==
    IF sorted = <<>> THEN <<e>>
    ELSE IF DateBefore(e.date, Last(sorted).date)
         THEN Append(InsertByDate(SubSeq(sorted, 1, Len(sorted) - 1), e), Last(sorted))
         ELSE Append(sorted, e)

RECURSIVE SortByDate(_)
SortByDate(events) ==
    IF events = <<>> THEN <<>>
    ELSE InsertByDate(SortByDate(SubSeq(events, 1, Len(events) - 1)), Last(events))

\* Rule 2 of iteration i (from 0) of predict_smic_revalorisations: the
\* automatic revaluation.  st.cumul12 and st.c20 are 12 times cumul_inflation
\* and cumul_inflation_20pct, st.sum is sum(inflation_forecast[:i+1]).
V2SmicAutomatic(st, i, trigger_date, c20, dt) ==
    LET prob == Max(40, 90 - 8 * (i + 1))
        increase_pct == RoundDiv(c20, 12 * 1000) * 1000
        new_brut == Revalue(st.running_smic_brut, increase_pct)
        fires == /\ c20 >= 12 * 2 * U
                 /\ ToOrdinal(Date(st.next_january, 1, 1)) - ToOrdinal(trigger_date) > 60
                 /\ ToOrdinal(trigger_date) > ToOrdinal(dt)
    IN  [events |-> IF fires
                    THEN Append(st.events,
                                SmicEvent(trigger_date, "automatique", prob, increase_pct,
                                          new_brut, NetOf(new_brut),
                                          IF prob > 60 THEN "moyenne" ELSE "basse"))
                    ELSE st.events,
         running_smic_brut |-> IF fires /\ prob > 70 THEN new_brut ELSE st.running_smic_brut,
         running_smic_net |-> IF fires /\ prob > 70 THEN NetOf(new_brut) ELSE st.running_smic_net,
         cumul12 |-> IF fires /\ prob > 70 THEN 0 ELSE st.cumul12,
         next_january |-> IF fires /\ prob > 70 THEN trigger_date.y + 1 ELSE st.next_january,
         c20 |-> c20, sum |-> st.sum]

\* Rule 1 of iteration i: the revaluation of January 1st
V2SmicJanuary(st, i, period) ==
    LET estimated_inflation == RoundDiv(Max(st.c20 * (i + 1), st.sum * 12), 12 * (i + 1))
        increase_pct == Round1(Clip(U, estimated_inflation + 5000, 4 * U))
        new_brut == Revalue(st.running_smic_brut, increase_pct)
    IN  IF period[2] = 1 /\ period[1] = st.next_january
        THEN [events |-> Append(st.events,
                                SmicEvent(Date(st.next_january, 1, 1), "janvier", 100,
                                          increase_pct, new_brut, NetOf(new_brut), "haute")),
              running_smic_brut |-> new_brut,
              running_smic_net |-> NetOf(new_brut),
              cumul12 |-> 0,
              next_january |-> st.next_january + 1,
              c20 |-> st.c20, sum |-> st.sum]
        ELSE st

V2SmicAccumulate(st, inflation_ga) ==
    [st EXCEPT !.cumul12 = @ + inflation_ga, !.sum = @ + inflation_ga]

V2SmicIteration(st, i, period, dt, modifier) ==
    V2SmicJanuary(V2SmicAutomatic(st, i, FirstOfNextMonth(period),
                                  st.cumul12 + modifier * (i + 1), dt),
                  i, period)

\* Iterations i.. of the loop over zip(inflation_periods, inflation_forecast)
RECURSIVE V2SmicLoop(_, _, _, _, _, _)
V2SmicLoop(st, i, inflation_forecast, inflation_periods, dt, modifier) ==
    IF i >= Min(Len(inflation_forecast), Len(inflation_periods)) THEN st
    ELSE V2SmicLoop(V2SmicIteration(V2SmicAccumulate(st, inflation_forecast[i + 1]),
                                    i, inflation_periods[i + 1], dt, modifier),
                    i + 1, inflation_forecast, inflation_periods, dt, modifier)

\* The January revaluation added when the loop produced none
V2SmicFallback(st, current_smic_brut, inflation_forecast) ==
    LET avg_inflation == IF inflation_forecast # <<>>
                         THEN RoundDiv(SumSeq(inflation_forecast), Len(inflation_forecast))
                         ELSE 15000
        increase_pct == Round1(Max(U, avg_inflation + 5000))
        new_brut == Revalue(current_smic_brut, increase_pct)
    IN  IF \E k \in 1..Len(st.events) : st.events[k].type = "janvier" THEN st
        ELSE [st EXCEPT !.events = <<SmicEvent(Date(st.next_january, 1, 1), "janvier", 100,
                                               increase_pct, new_brut, NetOf(new_brut),
                                               "haute")>> \o @,
                        !.running_smic_brut = new_brut,
                        !.running_smic_net = NetOf(new_brut)]

V2SmicResult(st, current_smic_brut, current_smic_net) ==
    IF current_smic_brut = 0 THEN Raise("ZeroDivisionError")
    ELSE Ok([current |-> [brut |-> current_smic_brut, net |-> current_smic_net],
             events |-> SortByDate(st.events),
             forecast_12m |->
               [total_increase_pct |->
                    TotalIncrease(st.running_smic_brut, current_smic_brut),
                final_smic_brut |-> st.running_smic_brut,
                final_smic_net |-> st.running_smic_net]])

predict_smic_revalorisations(dt, current_smic_brut, current_smic_net, inflation_forecast, inflation_periods, inflation_20pct_modifier) ==
    V2SmicResult(
        V2SmicFallback(
            V2SmicLoop([events |-> <<>>, running_smic_brut |-> current_smic_brut,
                        running_smic_net |-> current_smic_net, cumul12 |-> 0,
                        next_january |-> dt.y + 1, c20 |-> 0, sum |-> 0],
                       0, inflation_forecast, inflation_periods, dt,
                       inflation_20pct_modifier),
            current_smic_brut, inflation_forecast),
        current_smic_brut, current_smic_net)

\* round(brut * (1 + increase_pct / 100) * 0.792, 2): the net amount taken from
\* the unrounded gross amount (the product is split to stay within 32 bits)
NetOfUnrounded(brut, increase_pct) ==
    LET x   == brut * (1000 + increase_pct \div 1000)
        a   == (x \div 1000) * 792
        rem == (a % 1000) * 1000 + (x % 1000) * 792
        whole == a \div 1000 + rem \div 1000000
    IN  (whole - (whole % 2)) + RoundDiv((whole % 2) * 1000000 + (rem % 1000000), 1000000)

\* The events of predict_smic: the January revaluation, and the automatic one
\* when sum6 / 12, the approximate six-month inflation, reaches the threshold
V3SmicEvents(next_january_year, current_brut, estimated_increase, sum6) ==
    <<SmicEvent(Date(next_january_year, 1, 1), "janvier", 100, estimated_increase,
                Revalue(current_brut, estimated_increase),
                NetOf(Revalue(current_brut, estimated_increase)), "haute")>>
    \o IF sum6 >= 12 * SMIC_INFLATION_THRESHOLD
       THEN <<SmicEvent(Date(next_january_year, 7, 1), "automatique", 30,
                        RoundDiv(sum6, 12 * 1000) * 1000,
                        Revalue(Revalue(current_brut, estimated_increase),
                                RoundDiv(sum6, 12 * 1000) * 1000),
                        NetOfUnrounded(Revalue(current_brut, estimated_increase),
                                       RoundDiv(sum6, 12 * 1000) * 1000),
                        "basse")>>
       ELSE <<>>

V3SmicResult(events, current_brut, current_net) ==
    IF current_brut = 0 THEN Raise("ZeroDivisionError")
    ELSE Ok([current |-> [brut |-> current_brut, net |-> current_net],
             events |-> events,
             forecast_12m |->
               [total_increase_pct |->
                    TotalIncrease(events[1].estimated_new_smic_brut, current_brut),
                final_smic_brut |-> events[1].estimated_new_smic_brut,
                final_smic_net |-> events[1].estimated_new_smic_net]])

\* The institutional projections are JSON values
predict_smic(dt, current_brut, current_net, inflation_forecast, bdf_inflation_2026, bdf_inflation_2027) ==
    LET next_january_year == get_current_month_year(dt)[2] + 1
        base_inflation == IF next_january_year = 2026 THEN bdf_inflation_2026
                          ELSE bdf_inflation_2027
    IN  IF base_inflation.t = "str" THEN Raise("TypeError")
        ELSE V3SmicResult(
                 V3SmicEvents(next_january_year, current_brut,
                              Round1(Max(U, base_inflation.v + 3000)),
                              SumSeq(SubSeq(inflation_forecast, 1,
                                            Min(6, Len(inflation_forecast))))),
                 current_brut, current_net)

\* dict.get(key, default) of a dictionary modelled as a record
Get(dict, key, default) == IF key \in DOMAIN dict THEN dict[key] ELSE default

\* The events of predict_smic_v4, the January increase being estimated_increase
V4SmicEvents(next_january, current_smic_brut, estimated_increase, inflation_upper) ==
    <<[date |-> Date(next_january, 1, 1), type |-> "janvier", probability |-> 100,
       estimated_increase_pct |-> estimated_increase,
       estimated_new_smic_brut |-> Revalue(current_smic_brut, estimated_increase),
       estimated_new_smic_net |-> NetOf(Revalue(current_smic_brut, estimated_increase)),
       confidence |-> "haute",
       fourchette |-> [min |-> estimated_increase - 3000,
                       max |-> estimated_increase + 5000]]>>
    \o IF /\ inflation_upper >= SMIC_AUTO_THRESHOLD
          /\ (inflation_upper - SMIC_AUTO_THRESHOLD) * 3 > U
       THEN <<SmicEvent(Date(next_january, 7, 1), "automatique",
                        Min(40, RoundDiv((inflation_upper - SMIC_AUTO_THRESHOLD) * 30, U)),
                        Round1(inflation_upper - 5000),
                        Revalue(Revalue(current_smic_brut, estimated_increase),
                                Round1(inflation_upper - 5000)),
                        NetOfUnrounded(Revalue(current_smic_brut, estimated_increase),
                                       Round1(inflation_upper - 5000)),
                        "basse")>>
       ELSE <<>>

V4SmicResult(events, current_smic_brut, current_smic_net) ==
    [current |-> [brut |-> current_smic_brut, net |-> current_smic_net],
     events |-> events,
     forecast_12m |-> [total_increase_pct |-> events[1].estimated_increase_pct,
                       final_smic_brut |-> events[1].estimated_new_smic_brut,
                       final_smic_net |-> events[1].estimated_new_smic_net,
                       fourchette |-> events[1].fourchette]]

\* inflation_forecast is the dictionary of predict_inflation_v4, or any other
\* one; the result is [res, rng], one uniform deviate having been drawn
predict_smic_v4(dt, current_smic_brut, current_smic_net, inflation_forecast, bdf_inflation_2027, g) ==
    LET upper_bound == Get(Get(inflation_forecast, "mensuel", <<>>), "upper_bound", <<2 * U>>)
    IN  [rng |-> RngNext(g),
         res |-> IF upper_bound = <<>> THEN Raise("IndexError")
                 ELSE Ok(V4SmicResult(
                          V4SmicEvents(get_month_year(dt)[2] + 1, current_smic_brut,
                                       Round1(Max(U, Get(inflation_forecast, "prevision_12m", 15000)
                                                     + 3000 + Uniform02(g))),
                                       Last(upper_bound)),
                          current_smic_brut, current_smic_net))]

----------------------------------------------------------------------------
(* Specification of the series statistics: the arguments are drawn in Init, *)
(* the action applies the function.                                         *)

\* The call returns val
Returns(fn, val) == ret' = [fn |-> fn, val |-> val]

\* The call returns r.res and leaves the generator in state r.rng
ReturnsDrawing(fn, r) == ret' = [fn |-> fn, val |-> r.res] /\ rng' = r.rng

\* The forecaster returns the path r.res.v[key] (or raises)
ReturnsPath(fn, r, key) ==
    /\ ret' = [fn |-> fn, val |-> IF r.res.ok THEN Ok(r.res.v[key]) ELSE r.res]
    /\ rng' = r.rng

MaxPts == 3                 \* longest series given to a statistics function

XVals == 0..2

YVals == -1..2

IdleDate == Date(2026, 1, 1)

\* values of a series given to calculate_volatility, in 1/10000
VolVals == {-10000, 0, 15000}

MaxWindow == 4              \* widest window given to moving_average

\* point paths given to the interval builders: straight lines of 1, 6 or 12
\* points, in 1/10000
IntervalPaths ==
    {[k \in 1..n |-> start + (k - 1) * step] :
        n \in {1, 6, 12}, start \in {-45000, 2000, 20000}, step \in {-1000, 0, 1000}}

\* volatilities given to the interval builders, in 1/10000
IntervalVols == {0, VOLATILITY_V3.inflation, 5000}

\* confidence levels given to the interval builders, in percent
Confidences == {80, 90, 95}

\* The direct calls of the statistics functions
StatsCalls ==
    UNION {{[fn |-> "linear_regression", x |-> x, y |-> y] :
               x \in [1..k -> XVals], y \in [1..k -> YVals]} : k \in 0..MaxPts}
    \cup {[fn |-> "moving_average", data |-> d, window |-> w] :
              d \in UNION {[1..k -> YVals] : k \in 0..MaxPts}, w \in 1..MaxWindow}
    \cup {[fn |-> "calculate_volatility", data |-> d] :
              d \in UNION {[1..k -> VolVals] : k \in 0..MaxPts}}
    \cup {[fn |-> "percentile", data |-> d, p |-> p] :
              d \in UNION {[1..k -> YVals] : k \in 0..MaxPts}, p \in {10, 25, 50, 75, 90}}
    \cup {[fn |-> "monte_carlo_simulation", current |-> 15000, target |-> 14000,
           volatility |-> VOLATILITY_V4.inflation, horizon |-> h, n_sims |-> n,
           mean_reversion_speed |-> 12, seasonal_factors |-> NoSeasonal,
           start_month |-> 0] : h \in 1..2, n \in 0..2}
    \cup {[fn |-> "confidence_interval", predictions |-> p, volatility |-> v,
            confidence |-> c] : p \in IntervalPaths, v \in IntervalVols, c \in Confidences}
    \cup {[fn |-> "calculate_confidence_bounds", predictions |-> p,
            annual_volatility |-> v, confidence |-> c] :
               p \in IntervalPaths, v \in IntervalVols, c \in Confidences}

StatsInit ==
    /\ now = IdleDate
    /\ rng = Seed(now)
    /\ ret = NoRet
    /\ call \in StatsCalls
    /\ NoMain

CallLinearRegression ==
    /\ call.fn = "linear_regression"
    /\ ret = NoRet
    /\ ret' = [fn |-> "linear_regression", val |-> linear_regression(call.x, call.y)]
    /\ UNCHANGED <<now, rng, call, mainVars>>

CallMovingAverage ==
    /\ call.fn = "moving_average"
    /\ ret = NoRet
    /\ ret' = [fn |-> "moving_average", val |-> Ok(moving_average(call.data, call.window))]
    /\ UNCHANGED <<now, rng, call, mainVars>>

CallCalculateVolatility ==
    /\ call.fn = "calculate_volatility"
    /\ ret = NoRet
    /\ ret' = [fn |-> "calculate_volatility", val |-> Ok(calculate_volatility(call.data))]
    /\ UNCHANGED <<now, rng, call, mainVars>>

CallPercentile ==
    /\ call.fn = "percentile"
    /\ ret = NoRet
    /\ ret' = [fn |-> "percentile", val |-> percentile(call.data, call.p)]
    /\ UNCHANGED <<now, rng, call, mainVars>>

CallMonteCarlo ==
    /\ call.fn = "monte_carlo_simulation"
    /\ ret = NoRet
    /\ ReturnsDrawing(call.fn,
           monte_carlo_simulation(now, call.current, call.target, call.volatility,
                                  call.horizon, call.n_sims, call.mean_reversion_speed,
                                  call.seasonal_factors, call.start_month, rng))
    /\ UNCHANGED <<now, call, mainVars>>

CallConfidenceInterval ==
    /\ call.fn = "confidence_interval"
    /\ ret = NoRet
    /\ ret' = [fn |-> "confidence_interval",
               val |-> Ok(confidence_interval(call.predictions, call.volatility,
                                              call.confidence))]
    /\ UNCHANGED <<now, rng, call, mainVars>>

CallCalculateConfidenceBounds ==
    /\ call.fn = "calculate_confidence_bounds"
    /\ ret = NoRet
    /\ ret' = [fn |-> "calculate_confidence_bounds",
               val |-> Ok(calculate_confidence_bounds(call.predictions,
                                                      call.annual_volatility,
                                                      call.confidence))]
    /\ UNCHANGED <<now, rng, call, mainVars>>

StatsNext ==
    \/ CallLinearRegression
    \/ CallMovingAverage
    \/ CallCalculateVolatility
    \/ CallPercentile
    \/ CallMonteCarlo
    \/ CallConfidenceInterval
    \/ CallCalculateConfidenceBounds

SpecStats == StatsInit /\ [][StatsNext]_vars

----------------------------------------------------------------------------
AllEqual(x) == \A i, j \in 1..Len(x) : x[i] = x[j]

\* sum over i of w[i] * (y[i] - slope * x[i] - intercept), times sd * bd
WeightedResiduals(l, x, y, w) ==
    SumSeq([i \in 1..Len(x) |->
              w[i] * (y[i] * l.sd * l.bd - l.sn * l.bd * x[i] - l.bn * l.sd)])

IsLeastSquares(l, x, y) ==
    /\ l.sd # 0 /\ l.bd # 0
    /\ WeightedResiduals(l, x, y, [i \in 1..Len(x) |-> 1]) = 0
    /\ WeightedResiduals(l, x, y, x) = 0

(* C10: linear_regression returns (0, 0) for no point, (0, y[0]) for one    *)
(* point, (0, mean(y)) when all x are equal, never fails, and otherwise     *)
(* returns the least-squares line: the slope and intercept that satisfy     *)
(* the two normal equations sum(e) = 0 and sum(x * e) = 0 for the           *)
(* residuals e[i] = y[i] - slope * x[i] - intercept.                        *)
C10_LinearRegression ==
    (ret # NoRet /\ ret.fn = "linear_regression") =>
        LET x == call.x
            y == call.y
            l == ret.val
        IN  /\ l.sd # 0 /\ l.bd # 0
            /\ Len(x) = 0 => (l.sn = 0 /\ l.bn = 0)
            /\ Len(x) = 1 => (l.sn = 0 /\ l.bn = y[1] * l.bd)
            /\ (Len(x) >= 2 /\ AllEqual(x)) =>
                   (l.sn = 0 /\ l.bn * Len(y) = SumSeq(y) * l.bd)
            /\ (Len(x) >= 2 /\ ~AllEqual(x)) => IsLeastSquares(l, x, y)

C10_Witness ==
    /\ ret # NoRet /\ ret.fn = "linear_regression"
    /\ Len(call.x) = 3 /\ AllEqual(call.x) /\ SumSeq(call.y) = 2
    /\ ret.val.sn = 0 /\ ret.val.bn = 2 /\ ret.val.bd = 3

----------------------------------------------------------------------------
\* C11: no series-statistics operation raises on an empty or short input:
\* calculate_volatility returns 0.5 for a series of fewer than 3 points,
\* percentile returns a value for an empty series too, and
\* monte_carlo_simulation returns its statistics for every n_sims >= 0.
C11_DegenerateInputs ==
    (ret # NoRet /\ ret.fn \in {"calculate_volatility", "percentile",
                                "monte_carlo_simulation"}) =>
        /\ ret.val.ok
        /\ (ret.fn = "calculate_volatility" /\ Len(call.data) < 3) => ret.val.v = 5000
        /\ ret.fn = "monte_carlo_simulation" =>
               /\ Len(ret.val.v.p50) = call.horizon
               /\ Len(ret.val.v.std) = call.horizon
               /\ "probabilities" \in DOMAIN ret.val.v

----------------------------------------------------------------------------
\* C12: for every series and every window >= 1, a series shorter than the
\* window included, moving_average returns a sequence of the length of the
\* series whose entry i is the mean of the min(i + 1, window) points ending
\* at index i.
C12_MovingAverage ==
    (ret # NoRet /\ ret.fn = "moving_average") =>
        /\ ret.val.ok
        /\ Len(ret.val.v) = Len(call.data)
        /\ \A k \in 1..Len(call.data) :
              ret.val.v[k].n * Min(k, call.window)
                  = SumSeq(Slice(call.data, k - Min(k, call.window) + 1, k)) * ret.val.v[k].d


\* The width of the k-th interval
Width(b, k) == b.upper[k] - b.lower[k]

\* volatility * z * 1.5, in 1/10000
UncertaintyCap(volatility, z) == RoundDiv(RoundDiv(volatility * z, 1000) * 15, 10)

\* The width never shrinks along the path
WidthMonotone(b) == \A k \in 1..(Len(b.upper) - 1) : Width(b, k) <= Width(b, k + 1)

\* No upper bound stands further above its point than the cap, to the
\* rounding of the bound (half a unit of its last decimal)
UnderCap(b, predictions, cap, half_unit) ==
    \A k \in 1..Len(predictions) : b.upper[k] - predictions[k] <= cap + half_unit

\* C17: for v2 confidence_interval and v3 calculate_confidence_bounds applied
\* with a fixed volatility to any point path, the width upper[i] - lower[i]
\* never decreases along the path, and the uncertainty added at any step
\* never exceeds volatility * z * 1.5.
C17_IntervalGrowth ==
    /\ (ret.fn = "confidence_interval") =>
           /\ WidthMonotone(ret.val.v)
           /\ UnderCap(ret.val.v, call.predictions,
                       UncertaintyCap(call.volatility,
                                      IF call.confidence = 95 THEN Z95 ELSE Z90), 50)
    /\ (ret.fn = "calculate_confidence_bounds") =>
           /\ WidthMonotone(ret.val.v)
           /\ UnderCap(ret.val.v, call.predictions,
                       UncertaintyCap(call.annual_volatility, Z90), 500)


\* The z-score of a confidence level, in 1/1000: 0.80 -> 1.282, 0.90 -> 1.645,
\* 0.95 -> 1.96
ZScore(confidence) ==
    CASE confidence = 80 -> 1282
      [] confidence = 90 -> Z90
      [] confidence = 95 -> Z95

\* C23: the interval builders (v2 confidence_interval, v3
\* calculate_confidence_bounds) map the confidence level to the z-score of
\* the bounds as 0.80 -> 1.282, 0.90 -> 1.645, 0.95 -> 1.96: the upper bound
\* of every point is the point plus the uncertainty of that z.
C23_ZScoreOfConfidence ==
    /\ (ret.fn = "confidence_interval") =>
           \A k \in 1..Len(call.predictions) :
               ret.val.v.upper[k]
                   = Round2(call.predictions[k]
                            + RoundDiv(RoundDiv(call.volatility * ZScore(call.confidence), 1000)
                                       * SqrtTable[k], 2 * U))
    /\ (ret.fn = "calculate_confidence_bounds") =>
           \A k \in 1..Len(call.predictions) :
               ret.val.v.upper[k]
                   = Round1(call.predictions[k]
                            + RoundDiv(RoundDiv(call.annual_volatility
                                                * ZScore(call.confidence), 1000)
                                       * Min(SqrtOver12Table[k], 15000), U))

----------------------------------------------------------------------------
(* Specification of the Monte Carlo engine: the module is imported on the   *)
(* run date (which seeds the generator), then monte_carlo_simulation is     *)
(* called once with arguments drawn in Init.                                *)

MaxSims == 4                \* most trajectories in a direct call

MaxHorizon == 3             \* longest horizon in a direct call

McDates == {Date(2026, m, d) : m \in {6, 12}, d \in {1, 9, 28}}

McCurrents == {-2 * U, 15000, 75000}

McTargets == {0, 14000, 77000}

McInit ==
    /\ now \in McDates
    /\ rng = Seed(now)
    /\ ret = NoRet
    /\ \E current \in McCurrents, target \in McTargets,
          kind \in {"inflation", "chomage"},
          horizon \in 1..MaxHorizon, n_sims \in 0..MaxSims,
          seasonal \in {NoSeasonal, SEASONAL_INFLATION},
          start_month \in {0, 12} :
          call = [fn |-> "monte_carlo_simulation", current |-> current,
                  target |-> target, volatility |-> VOLATILITY_V4[kind],
                  horizon |-> horizon, n_sims |-> n_sims,
                  mean_reversion_speed |-> IF kind = "inflation" THEN 12 ELSE 20,
                  seasonal_factors |-> seasonal, start_month |-> start_month]
    /\ NoMain

McNext == CallMonteCarlo

SpecMC == McInit /\ [][McNext]_vars

----------------------------------------------------------------------------
BandsOrdered(r) ==
    \A h \in 1..Len(r.p50) :
        /\ r.p10[h] <= r.p25[h]
        /\ r.p25[h] <= r.p50[h]
        /\ r.p50[h] <= r.p75[h]
        /\ r.p75[h] <= r.p90[h]

(* C5: for every set of simulated trajectories with n_sims >= 2 and every   *)
(* step h, the bands returned by monte_carlo_simulation are ordered:        *)
(* p10[h] <= p25[h] <= p50[h] <= p75[h] <= p90[h].                          *)
C5_PercentileOrdering ==
    (ret # NoRet /\ ret.fn = "monte_carlo_simulation" /\ call.n_sims >= 2) =>
        /\ ret.val.ok
        /\ Len(ret.val.v.p50) = call.horizon
        /\ BandsOrdered(ret.val.v)

\* a call whose bands are all distinct at the last step
C5_Witness ==
    /\ ret # NoRet /\ ret.fn = "monte_carlo_simulation" /\ call.n_sims >= 3
    /\ ret.val.ok
    /\ LET r == ret.val.v
           h == call.horizon
       IN  r.p10[h] < r.p50[h] /\ r.p50[h] < r.p90[h]

----------------------------------------------------------------------------
(* Specification of the forecasters: the module is imported on the run     *)
(* date, then one forecaster is called with arguments drawn in Init.       *)

RunDates == {Date(y, m, d) : y \in 2025..2027, m \in 1..12, d \in {1, 2, 15, 28}}

\* inflation_salaires records of the dataset
InflationHistory ==
    <<[annee |-> 2020, inflation |-> 5000], [annee |-> 2021, inflation |-> 16000],
      [annee |-> 2022, inflation |-> 52000], [annee |-> 2023, inflation |-> 49000],
      [annee |-> 2024, inflation |-> 20000]>>

\* chomage records of the dataset, the last one being T3 2025
ChomageHistory ==
    <<[trimestre |-> <<2023, 4>>, taux |-> 75000], [trimestre |-> <<2024, 1>>, taux |-> 75000],
      [trimestre |-> <<2024, 2>>, taux |-> 73000], [trimestre |-> <<2024, 3>>, taux |-> 74000],
      [trimestre |-> <<2024, 4>>, taux |-> 73000], [trimestre |-> <<2025, 1>>, taux |-> 74000],
      [trimestre |-> <<2025, 2>>, taux |-> 75000], [trimestre |-> <<2025, 3>>, taux |-> 77000]>>

PathCalls ==
    {[fn |-> "predict_inflation_monthly", historical_annual |-> h,
      current_monthly |-> c, energy_outlook |-> e] :
        h \in {LastK(InflationHistory, k) : k \in {0, 1, 5}},
        c \in {-2 * U, 9000, 60000}, e \in {"hausse", "stable", "baisse"}}
    \cup
    {[fn |-> "predict_unemployment_quarterly", historical |-> h,
      gdp_forecast |-> gdp, business_climate |-> cl] :
        h \in {LastK(ChomageHistory, k) : k \in {2, 3, 8}},
        gdp \in {-10000, 10000}, cl \in {85 * U, 99 * U}}
    \cup
    {[fn |-> "predict_inflation", current_inflation |-> c,
      bdf_forecast_2026 |-> Num(t26), bdf_forecast_2027 |-> Num(t27)] :
        c \in {-2 * U, 0, 15000, 60000}, t26 \in {-5000, 0, 14000},
        t27 \in {0, 16000}}
    \cup
    {[fn |-> "predict_unemployment", current_unemployment |-> c,
      bdf_forecast_2026 |-> Num(t26), bdf_forecast_2027 |-> Num(t27)] :
        c \in {0, 75000, 110000}, t26 \in {0, 77000}, t27 \in {76000}}
    \cup
    {[fn |-> "predict_inflation_v4", current_inflation |-> c,
      bdf_target_2026 |-> Num(t26), bdf_target_2027 |-> Num(16000),
      climat_affaires |-> cl, energie_outlook |-> "stable"] :
        c \in {-2 * U, 15000}, t26 \in {-5000, 14000}, cl \in {98 * U}}
    \cup
    {[fn |-> "predict_chomage_v4", current_chomage |-> c,
      bdf_target_2026 |-> Num(77000), bdf_target_2027 |-> Num(75000),
      climat_affaires |-> cl, difficultes_recrutement |-> 50 * U] :
        c \in {0, 75000}, cl \in {98 * U}}

PathInit ==
    /\ now \in RunDates
    /\ rng = Seed(now)
    /\ ret = NoRet
    /\ call \in PathCalls
    /\ NoMain

CallPredictInflationMonthly ==
    /\ call.fn = "predict_inflation_monthly" /\ ret = NoRet
    /\ Returns(call.fn, Ok(predict_inflation_monthly(now, call.historical_annual,
                              call.current_monthly, call.energy_outlook, 12)))
    /\ UNCHANGED <<now, rng, call, mainVars>>

CallPredictUnemploymentQuarterly ==
    /\ call.fn = "predict_unemployment_quarterly" /\ ret = NoRet
    /\ Returns(call.fn, Ok(predict_unemployment_quarterly(call.historical,
                              call.gdp_forecast, call.business_climate, 4)))
    /\ UNCHANGED <<now, rng, call, mainVars>>

CallPredictInflation ==
    /\ call.fn = "predict_inflation" /\ ret = NoRet
    /\ Returns(call.fn, predict_inflation(now, call.current_inflation,
                              call.bdf_forecast_2026, call.bdf_forecast_2027, 12))
    /\ UNCHANGED <<now, rng, call, mainVars>>

CallPredictUnemployment ==
    /\ call.fn = "predict_unemployment" /\ ret = NoRet
    /\ Returns(call.fn, predict_unemployment(now, call.current_unemployment,
                              call.bdf_forecast_2026, call.bdf_forecast_2027, 4))
    /\ UNCHANGED <<now, rng, call, mainVars>>

CallPredictInflationV4 ==
    /\ call.fn = "predict_inflation_v4" /\ ret = NoRet
    /\ ReturnsPath(call.fn,
           predict_inflation_v4(now, call.current_inflation, call.bdf_target_2026,
                                call.bdf_target_2027, call.climat_affaires,
                                call.energie_outlook, rng),
           "mensuel")
    /\ UNCHANGED <<now, call, mainVars>>

CallPredictChomageV4 ==
    /\ call.fn = "predict_chomage_v4" /\ ret = NoRet
    /\ ReturnsPath(call.fn,
           predict_chomage_v4(now, call.current_chomage, call.bdf_target_2026,
                              call.bdf_target_2027, call.climat_affaires,
                              call.difficultes_recrutement, rng),
           "trimestriel")
    /\ UNCHANGED <<now, call, mainVars>>

PathNext ==
    \/ CallPredictInflationMonthly
    \/ CallPredictUnemploymentQuarterly
    \/ CallPredictInflation
    \/ CallPredictUnemployment
    \/ CallPredictInflationV4
    \/ CallPredictChomageV4

SpecPath == PathInit /\ [][PathNext]_vars

InflationForecasters ==
    {"predict_inflation_monthly", "predict_inflation", "predict_inflation_v4"}

UnemploymentForecasters ==
    {"predict_unemployment_quarterly", "predict_unemployment", "predict_chomage_v4"}

\* A forecaster returned a path (the dictionary holding predictions, bounds
\* and periods)
ReturnedPath ==
    /\ ret # NoRet
    /\ ret.fn \in InflationForecasters \cup UnemploymentForecasters
    /\ ret.val.ok
    /\ "predictions" \in DOMAIN ret.val.v

----------------------------------------------------------------------------
PathBounded(p) ==
    \A i \in 1..Len(p.predictions) :
        p.lower_bound[i] <= p.predictions[i] /\ p.predictions[i] <= p.upper_bound[i]

(* C1: for every forecast path returned by the inflation and unemployment  *)
(* forecasters of v2, v3 and v4 and every index i,                         *)
(* lower_bound[i] <= predictions[i] <= upper_bound[i].                     *)
C1_BoundsInvariant == ReturnedPath => PathBounded(ret.val.v)

----------------------------------------------------------------------------
HorizonOf(fn) == IF fn \in InflationForecasters THEN 12 ELSE 4

PathShape(p, horizon) ==
    /\ Len(p.predictions) = horizon /\ Len(p.periods) = horizon
    /\ Len(p.lower_bound) = horizon /\ Len(p.upper_bound) = horizon
    /\ \A i \in 1..(Len(p.periods) - 1) : LabelBefore(p.periods[i], p.periods[i + 1])

(* C3: every forecast path has exactly horizon entries (12 monthly, 4      *)
(* quarterly) in predictions, lower_bound, upper_bound and periods, and    *)
(* its period labels are strictly increasing in calendar order.            *)
C3_PathShape == ReturnedPath => PathShape(ret.val.v, HorizonOf(ret.fn))

----------------------------------------------------------------------------
\* No lower bound of the path is below floor
FlooredAt(p, floor) == \A i \in 1..Len(p.lower_bound) : p.lower_bound[i] >= floor

\* C22: for every input, current values at or near zero included, every
\* lower_bound entry of an unemployment forecast path is >= 0 and every
\* lower_bound entry of an inflation forecast path is >= -2 (v2, v3, v4).
C22_LowerBoundFloors ==
    /\ (ReturnedPath /\ ret.fn \in UnemploymentForecasters) => FlooredAt(ret.val.v, 0)
    /\ (ReturnedPath /\ ret.fn \in InflationForecasters) => FlooredAt(ret.val.v, -2 * U)

----------------------------------------------------------------------------
\* A projection three points above projection t
Shifted(t) == Num(t.v + 3 * U)

\* The forecast months whose period label falls in year y
LabelledIn(periods, y) == {k \in 1..Len(periods) : periods[k][1] = y}

\* Path `other` was forecast with another projection for 2027 only: the
\* months labelled in 2026 keep their forecast, those labelled in 2027
\* follow the 2027 projection
FollowsLabelYear(path, other) ==
    /\ \A k \in LabelledIn(path.periods, 2026) : other.predictions[k] = path.predictions[k]
    /\ \A k \in LabelledIn(path.periods, 2027) : other.predictions[k] # path.predictions[k]

\* C18: in v3 predict_inflation and v4 predict_inflation_v4 the month k of
\* the forecast converges toward the institutional projection of the
\* calendar year of its period label: forecast again with another projection
\* for 2027, the months labelled in 2026 are unchanged and every month
\* labelled in 2027 moves.
C18_TargetByLabelYear ==
    /\ (ReturnedPath /\ ret.fn = "predict_inflation") =>
           FollowsLabelYear(ret.val.v,
               predict_inflation(now, call.current_inflation, call.bdf_forecast_2026,
                                 Shifted(call.bdf_forecast_2027), 12).v)
    /\ (ReturnedPath /\ ret.fn = "predict_inflation_v4") =>
           FollowsLabelYear(ret.val.v,
               predict_inflation_v4(now, call.current_inflation, call.bdf_target_2026,
                                    Shifted(call.bdf_target_2027), call.climat_affaires,
                                    call.energie_outlook, Seed(now)).res.v.mensuel)

----------------------------------------------------------------------------
\* x lies between a and b, ends included
Between(x, a, b) == (a <= x /\ x <= b) \/ (b <= x /\ x <= a)

\* C27: in v3 predict_inflation, for every run date, current value and pair
\* of targets, the convergence weight 0.3 + 0.7 * progress of each month lies
\* in [0, 1], so each month's unrounded prediction lies between the previous
\* value and that month's target: the path never moves away from its target
\* and never overshoots it.
C27_ConvergenceWeight ==
    (ReturnedPath /\ ret.fn = "predict_inflation") =>
        \A k \in 1..Len(ret.val.v.steps) :
            /\ 0 <= ret.val.v.steps[k].wn
            /\ ret.val.v.steps[k].wn <= ret.val.v.steps[k].wd
            /\ Between(ret.val.v.steps[k].to, ret.val.v.steps[k].from,
                       ret.val.v.steps[k].target)

----------------------------------------------------------------------------
\* C29: an institutional target present with the value 0 is the convergence
\* target; the built-in default (1.4 / 1.6 for inflation, 7.7 / 7.6 for
\* unemployment in v3) is used only when the target is absent: the targets
\* the v3 forecasters converge to are the targets they were given.
C29_ZeroTargetKept ==
    (ReturnedPath /\ ret.fn \in {"predict_inflation", "predict_unemployment"}) =>
        /\ ret.val.v.sources.bdf_2026 = call.bdf_forecast_2026.v
        /\ ret.val.v.sources.bdf_2027 = call.bdf_forecast_2027.v

----------------------------------------------------------------------------
(* Specification of the SMIC forecasters: one forecaster is called once on *)
(* a run date, with amounts, an inflation forecast and, for v4, an         *)
(* inflation dictionary drawn from small sets.                             *)

SmicDates == {Date(y, m, d) : y \in 2025..2026, m \in 1..12, d \in {1, 15}}

\* current gross and net amounts, in cents
SmicAmounts == {<<182303, 144311>>, <<180180, 142662>>, <<0, 0>>}

\* A forecast of n months: flat at level f, or rising from f by 0.5 a month
SmicForecasts ==
    {[i \in 1..n |-> f] : n \in {0, 6, 12}, f \in {-10000, 0, 14000, 30000, 60000, 100000}}
    \cup {[i \in 1..n |-> f + 5000 * i] : n \in {6, 12}, f \in {0, 20000}}

\* The labels predict_inflation_monthly gives a forecast of n months on date dt
SmicPeriods(dt, n) ==
    [i \in 1..n |-> YearMonth(V2MonthDate(dt, i).y, V2MonthDate(dt, i).m)]

\* What predict_smic_v4 may be given: a forecast dictionary, one without a
\* monthly section, an empty one, one with an empty upper bound
SmicInflationDicts ==
    {[prevision_12m |-> p, mensuel |-> [upper_bound |-> <<p, u>>]] :
        p \in {-10000, 8000, 14000, 30000}, u \in {10000, 20000, 23000, 24000, 35000, 50000}}
    \cup {[prevision_12m |-> 14000], <<>>, [mensuel |-> [upper_bound |-> <<>>]]}

SmicCalls(dt) ==
    [fn : {"predict_smic_revalorisations"}, amounts : SmicAmounts,
     inflation_forecast : SmicForecasts, inflation_20pct_modifier : {3000}]
    \cup [fn : {"predict_smic"}, amounts : SmicAmounts,
          inflation_forecast : SmicForecasts \ {f \in SmicForecasts : Len(f) = 6},
          bdf_inflation_2026 : {Num(14000), Str(14000)},
          bdf_inflation_2027 : {Num(16000), Num(-5000), Str(16000)}]
    \cup [fn : {"predict_smic_v4"}, amounts : SmicAmounts,
          inflation_forecast : SmicInflationDicts]

SmicInit ==
    /\ now \in SmicDates
    /\ rng = Seed(now)
    /\ call \in SmicCalls(now)
    /\ ret = NoRet
    /\ NoMain

CallPredictSmicRevalorisations ==
    /\ ret = NoRet /\ call.fn = "predict_smic_revalorisations"
    /\ Returns(call.fn,
               predict_smic_revalorisations(now, call.amounts[1], call.amounts[2],
                                            call.inflation_forecast,
                                            SmicPeriods(now, Len(call.inflation_forecast)),
                                            call.inflation_20pct_modifier))
    /\ UNCHANGED <<now, rng, call, mainVars>>

CallPredictSmic ==
    /\ ret = NoRet /\ call.fn = "predict_smic"
    /\ Returns(call.fn,
               predict_smic(now, call.amounts[1], call.amounts[2], call.inflation_forecast,
                            call.bdf_inflation_2026, call.bdf_inflation_2027))
    /\ UNCHANGED <<now, rng, call, mainVars>>

CallPredictSmicV4 ==
    /\ ret = NoRet /\ call.fn = "predict_smic_v4"
    /\ ReturnsDrawing(call.fn,
                      predict_smic_v4(now, call.amounts[1], call.amounts[2],
                                      call.inflation_forecast, 16000, rng))
    /\ UNCHANGED <<now, call, mainVars>>

SmicNext ==
    \/ CallPredictSmicRevalorisations
    \/ CallPredictSmic
    \/ CallPredictSmicV4

SpecSmic == SmicInit /\ [][SmicNext]_vars

\* A SMIC forecaster returned its dictionary
ReturnedEvents ==
    /\ ret # NoRet
    /\ ret.fn \in {"predict_smic_revalorisations", "predict_smic", "predict_smic_v4"}
    /\ ret.val.ok

----------------------------------------------------------------------------
\* C2: the event list a SMIC forecaster (v2, v3, v4) returns is never empty
\* and its first element is the January revaluation, of probability 1.0,
\* also when an automatic event is produced.
C2_MandatoryFirst ==
    ReturnedEvents =>
        /\ ret.val.v.events # <<>>
        /\ ret.val.v.events[1].type = "janvier"
        /\ ret.val.v.events[1].probability = 100

----------------------------------------------------------------------------
\* C4: in every event list a SMIC forecaster (v2, v3, v4) returns, the events
\* are in ascending order of date: date(e[k]) <= date(e[k+1]).
C4_EventsSorted ==
    ReturnedEvents =>
        \A k \in 1..(Len(ret.val.v.events) - 1) :
            ~DateBefore(ret.val.v.events[k + 1].date, ret.val.v.events[k].date)

\* v2 returned automatic events followed by the January revaluation of the
\* next year
C4_Witness ==
    /\ ReturnedEvents
    /\ ret.fn = "predict_smic_revalorisations"
    /\ Len(ret.val.v.events) >= 2
    /\ ret.val.v.events[1].type = "automatique"
    /\ Last(ret.val.v.events).type = "janvier"

----------------------------------------------------------------------------
\* The gross amounts that can be in force before event k of a list: the
\* current amount and the amounts the other events of the list set
GrossBefore(events, k, current_brut) ==
    {current_brut} \cup {events[j].estimated_new_smic_brut : j \in 1..Len(events) \ {k}}

\* C13: for every event of a returned list (January and automatic, v2, v3
\* and v4), estimated_new_smic_brut is a gross amount in force before the
\* event times (1 + estimated_increase_pct / 100) rounded to 2 decimals, and
\* estimated_new_smic_net is that recorded estimated_new_smic_brut times
\* 0.792 rounded to 2 decimals (the increase has one decimal: it is a whole
\* number of thousandths of the gross amount).
C13_EventAmounts ==
    ReturnedEvents =>
        \A k \in 1..Len(ret.val.v.events) :
            /\ \E b \in GrossBefore(ret.val.v.events, k, call.amounts[1]) :
                   ret.val.v.events[k].estimated_new_smic_brut
                       = RoundDiv(b * (1000 + ret.val.v.events[k].estimated_increase_pct
                                                  \div 1000), 1000)
            /\ ret.val.v.events[k].estimated_new_smic_net
                   = RoundDiv(ret.val.v.events[k].estimated_new_smic_brut * 792, 1000)

----------------------------------------------------------------------------
\* C14: the estimated_increase_pct of every January event is >= 1.0, for
\* every inflation forecast (negative, zero or missing values included) and
\* every random perturbation, in v2 (in-loop and fallback event), v3 and v4.
C14_JanuaryFloor ==
    ReturnedEvents =>
        \A k \in 1..Len(ret.val.v.events) :
            ret.val.v.events[k].type = "janvier" =>
                ret.val.v.events[k].estimated_increase_pct >= U

\* v2 produced its January event from a forecast negative in every month:
\* the floor gives the increase
C14_Witness ==
    /\ ReturnedEvents
    /\ ret.fn = "predict_smic_revalorisations"
    /\ Len(call.inflation_forecast) = 12
    /\ \A i \in 1..12 : call.inflation_forecast[i] < 0
    /\ \E k \in 1..Len(ret.val.v.events) :
          /\ ret.val.v.events[k].type = "janvier"
          /\ ret.val.v.events[k].estimated_increase_pct = U


----------------------------------------------------------------------------
\* The event list holds an automatic event
HasAutomatic(events) == \E k \in 1..Len(events) : events[k].type = "automatique"

\* predict_smic_v4 returned a forecast built from an inflation dictionary that
\* carries a monthly upper bound
ReturnedV4WithUpper ==
    /\ ReturnedEvents /\ ret.fn = "predict_smic_v4"
    /\ "mensuel" \in DOMAIN call.inflation_forecast
    /\ call.inflation_forecast.mensuel.upper_bound # <<>>

\* C19: predict_smic_v4 adds an automatic in-year event whenever the last
\* upper bound of the inflation forecast reaches the threshold of 2.0
\* (upper_bound[-1] >= 2.0), and adds none when it is below 2.0.
C19_AutomaticAtThreshold ==
    ReturnedV4WithUpper =>
        (HasAutomatic(ret.val.v.events)
            <=> Last(call.inflation_forecast.mensuel.upper_bound) >= SMIC_AUTO_THRESHOLD)


\* C20: every automatic event of an event list returned by a SMIC forecaster
\* (v2, v3, v4) has a probability p with 0 < p <= 0.4, and only events of
\* type 'janvier' carry the probability 1.0.
C20_AutomaticProbability ==
    ReturnedEvents =>
        \A k \in 1..Len(ret.val.v.events) :
            /\ ret.val.v.events[k].type = "automatique" =>
                   (0 < ret.val.v.events[k].probability
                    /\ ret.val.v.events[k].probability <= 40)
            /\ ret.val.v.events[k].probability = 100 =>
                   ret.val.v.events[k].type = "janvier"

----------------------------------------------------------------------------
(* The dataset.  A loaded JSON object is its items <<key, value>> in       *)
(* insertion order; a file of the store is missing or holds a text: a JSON *)
(* object (its members as written, a key possibly repeated), another JSON  *)
(* value, or something that does not parse.                                *)

DictHas(d, k) == \E i \in 1..Len(d) : d[i][1] = k

\* d[k] = v
DictSet(d, k, v) ==
    IF DictHas(d, k) THEN [i \in 1..Len(d) |-> IF d[i][1] = k THEN <<k, v>> ELSE d[i]]
    ELSE Append(d, <<k, v>>)

\* d.get(k, default)
DictGet(d, k, default) ==
    IF DictHas(d, k) THEN d[CHOOSE i \in 1..Len(d) : d[i][1] = k][2] ELSE default

\* The dictionary json.load builds from the members of an object: a repeated
\* key keeps its first position and its last value
RECURSIVE DictOf(_)
DictOf(pairs) ==
    IF pairs = <<>> THEN <<>>
    ELSE DictSet(DictOf(SubSeq(pairs, 1, Len(pairs) - 1)), Last(pairs)[1], Last(pairs)[2])

Missing == [kind |-> "missing", pairs |-> <<>>]

FileText(kind, pairs) == [kind |-> kind, pairs |-> pairs]

\* with open(path, 'r') as f: json.load(f)
json_load(file) ==
    IF file.kind = "missing" THEN Raise("FileNotFoundError")
    ELSE IF file.kind = "object" THEN Ok([type |-> "dict", items |-> DictOf(file.pairs)])
    ELSE IF file.kind = "array" THEN Ok([type |-> "list", items |-> <<>>])
    ELSE Raise("JSONDecodeError")

\* json.dump(data, f): the text of the dictionary, one member per item
json_dump(data) == FileText("object", data.items)

\* str(year), for the years of the run dates
YearKey(y) == CASE y = 2025 -> "2025" [] y = 2026 -> "2026" [] y = 2027 -> "2027"

\* A table of the institutional projections, by year
Targets(t2026, t2027) == ("2026" :> t2026) @@ ("2027" :> t2027)

\* The sections of a dataset, in five variants: "usual" values, "deflation"
\* (negative inflation and targets), "surge" (high inflation), "strings"
\* (projections given as numeric strings), "short" (one point of unemployment
\* history); amounts in cents, rates in 1/10000
SectionValue(key, variant) ==
    CASE key = "indicateurs_cles" ->
           [inflation_annuelle |-> CASE variant = "deflation" -> -20000
                                     [] variant = "surge" -> 60000
                                     [] OTHER -> 12000,
            taux_chomage_actuel |-> 74000,
            difficultes_recrutement |-> 61 * U,
            climat_affaires |-> 97 * U,
            prix_gazole |-> IF variant = "surge" THEN 19500 ELSE 16500]
      [] key = "inflation_salaires" ->
           IF variant = "surge"
           THEN <<[annee |-> 2023, inflation |-> 20000], [annee |-> 2024, inflation |-> 45000],
                  [annee |-> 2025, inflation |-> 60000]>>
           ELSE <<[annee |-> 2023, inflation |-> 49000], [annee |-> 2024, inflation |-> 20000],
                  [annee |-> 2025, inflation |-> 12000]>>
      [] key = "chomage" ->
           IF variant = "short" THEN <<[trimestre |-> <<2025, 3>>, taux |-> 77000]>>
           ELSE <<[trimestre |-> <<2025, 1>>, taux |-> 74000],
                  [trimestre |-> <<2025, 2>>, taux |-> 75000],
                  [trimestre |-> <<2025, 3>>, taux |-> 77000]>>
      [] key = "smic" ->
           [montant_brut |-> 182303, montant_net |-> 144311,
            date_vigueur |-> Date(2026, 1, 1)]
      [] key = "previsions" ->
           [banque_de_france |->
              [inflation_ipch |->
                 CASE variant = "deflation" -> Targets(Num(-5000), Num(-5000))
                   [] variant = "surge" -> Targets(Num(30000), Num(25000))
                   [] variant = "strings" -> Targets(Str(14000), Str(16000))
                   [] OTHER -> Targets(Num(14000), Num(16000)),
               taux_chomage |->
                 IF variant = "strings" THEN Targets(Str(77000), Str(76000))
                 ELSE Targets(Num(77000), Num(76000)),
               pib_croissance |->
                 IF variant = "strings" THEN Targets(Str(10000), Str(11000))
                 ELSE Targets(Num(10000), Num(11000))]]
      [] key = "climat_affaires" -> [valeur_actuelle |-> 97 * U]
      [] key = "last_updated" -> Date(2026, 1, 5)
      [] key = "previsions_cftc" -> [model_version |-> "previous"]

\* The keys the orchestrators read, then two they do not
SectionKeys ==
    <<"indicateurs_cles", "inflation_salaires", "chomage", "smic", "previsions",
      "climat_affaires", "last_updated", "previsions_cftc">>

\* The members of a dataset holding the sections of `present`
Members(present, variant) ==
    SelectSeq([i \in 1..Len(SectionKeys) |->
                  <<SectionKeys[i], SectionValue(SectionKeys[i], variant)>>],
              LAMBDA kv : kv[1] \in present)

\* The section `key` left empty ({} or []), every other one as in `variant`
Hollowed(members, key) ==
    [i \in 1..Len(members) |-> IF members[i][1] = key THEN <<key, <<>>>> ELSE members[i]]

----------------------------------------------------------------------------
(* The orchestrators, stage by stage.  `a` is the record of anchors the    *)
(* orchestrator extracted from the dataset; a stage gives Ok(value) or the *)
(* exception it raises.                                                    *)

\* data.get('previsions', {}).get('banque_de_france', {}).get(table, {}).get(year, default)
Projection(items, table, year, default) ==
    Get(Get(Get(DictGet(items, "previsions", <<>>), "banque_de_france", <<>>), table, <<>>),
        year, Num(default))

\* float(x) if isinstance(x, str) else x
FloatIfStr(x) == Num(x.v)

\* The three scenarios, from the 12-month and fourth-quarter values
Scenarios(inflation_lower, inflation_central, inflation_upper, chomage_lower, chomage_central, chomage_upper) ==
    [optimiste  |-> [inflation_12m |-> inflation_lower, chomage_q4 |-> chomage_lower],
     central    |-> [inflation_12m |-> inflation_central, chomage_q4 |-> chomage_central],
     pessimiste |-> [inflation_12m |-> inflation_upper, chomage_q4 |-> chomage_upper]]

V2Extract(data, dt) ==
    IF data.type # "dict" THEN Raise("AttributeError")
    ELSE Ok([current_inflation |->
                 Get(DictGet(data.items, "indicateurs_cles", <<>>), "inflation_annuelle", 15000),
             energy_outlook |->
                 IF Get(DictGet(data.items, "indicateurs_cles", <<>>), "prix_gazole", 17000) < 16000
                 THEN "baisse"
                 ELSE IF Get(DictGet(data.items, "indicateurs_cles", <<>>), "prix_gazole", 17000) > 18000
                      THEN "hausse" ELSE "stable",
             inflation_hist |-> DictGet(data.items, "inflation_salaires", <<>>),
             chomage_hist |-> DictGet(data.items, "chomage", <<>>),
             current_smic_brut |-> Get(DictGet(data.items, "smic", <<>>), "montant_brut", 182303),
             current_smic_net |-> Get(DictGet(data.items, "smic", <<>>), "montant_net", 144311),
             gdp_forecast |->
                 FloatIfStr(Projection(data.items, "pib_croissance", YearKey(dt.y), 10000)).v,
             business_climate |->
                 Get(DictGet(data.items, "indicateurs_cles", <<>>), "climat_affaires", 99 * U),
             taux_chomage_actuel |->
                 Get(DictGet(data.items, "indicateurs_cles", <<>>), "taux_chomage_actuel", 75000),
             difficultes_recrutement |->
                 Get(DictGet(data.items, "indicateurs_cles", <<>>), "difficultes_recrutement", 60 * U)])

V2Inflation(a, dt) ==
    Ok(predict_inflation_monthly(dt, a.inflation_hist, a.current_inflation,
                                 a.energy_outlook, 12))

V2Smic(a, inflation_pred, dt) ==
    predict_smic_revalorisations(dt, a.current_smic_brut, a.current_smic_net,
                                 inflation_pred.predictions, inflation_pred.periods, 3000)

V2Chomage(a) ==
    Ok(predict_unemployment_quarterly(a.chomage_hist, a.gdp_forecast, a.business_climate, 4))

\* chomage_pred['lower_bound'] is a KeyError on the error dictionary
V2Scenarios(inflation_pred, chomage_pred) ==
    IF "lower_bound" \notin DOMAIN chomage_pred THEN Raise("KeyError")
    ELSE Ok(Scenarios(Round1(Last(inflation_pred.lower_bound)),
                      Round1(Last(inflation_pred.predictions)),
                      Round1(Last(inflation_pred.upper_bound)),
                      Round1(Last(chomage_pred.lower_bound)),
                      Round1(Last(chomage_pred.predictions)),
                      Round1(Last(chomage_pred.upper_bound))))

\* nao_arguments: the figures its sentences quote
V2NaoArguments(a, inflation_pred, smic_pred, chomage_pred) ==
    Ok([avg_inflation_6m |-> RoundDiv(SumSeq(SubSeq(inflation_pred.predictions, 1, 6)), 6),
        augmentation |->
            Max(2 * U, RoundDiv(SumSeq(SubSeq(inflation_pred.predictions, 1, 6)), 6) + U),
        inflation_6m |-> inflation_pred.predictions[6],
        smic_event |-> smic_pred.events[1],
        chomage |-> Last(chomage_pred.predictions),
        difficultes_recrutement |-> a.difficultes_recrutement])

V2Assemble(a, inflation_pred, smic_pred, chomage_pred, scenarios, nao_arguments, dt) ==
    Ok([generated_at |-> dt,
        model_version |-> "CFTC v2.0",
        inflation |-> [actuel |-> a.current_inflation,
                       prevision_6m |-> Round1(inflation_pred.predictions[6]),
                       prevision_12m |-> Round1(Last(inflation_pred.predictions)),
                       tendance |-> IF Last(inflation_pred.predictions) > a.current_inflation
                                    THEN "hausse" ELSE "baisse",
                       mensuel |-> inflation_pred],
        smic |-> smic_pred,
        chomage |-> [actuel |-> a.taux_chomage_actuel,
                     prevision_q4 |-> Last(chomage_pred.predictions),
                     tendance |-> Tendance(Last(chomage_pred.predictions),
                                            a.taux_chomage_actuel),
                     trimestriel |-> chomage_pred],
        scenarios |-> scenarios,
        nao_arguments |-> nao_arguments])

\* v3 converts the 2026 projections given as strings, not those of 2027
V3Extract(data) ==
    IF data.type # "dict" THEN Raise("AttributeError")
    ELSE Ok([inflation_actuel |->
                 Get(DictGet(data.items, "indicateurs_cles", <<>>), "inflation_annuelle", 15000),
             chomage_actuel |->
                 Get(DictGet(data.items, "indicateurs_cles", <<>>), "taux_chomage_actuel", 75000),
             difficultes_recrutement |->
                 Get(DictGet(data.items, "indicateurs_cles", <<>>), "difficultes_recrutement", 60 * U),
             bdf_inflation_2026 |-> FloatIfStr(Projection(data.items, "inflation_ipch", "2026", 14000)),
             bdf_inflation_2027 |-> Projection(data.items, "inflation_ipch", "2027", 16000),
             bdf_chomage_2026 |-> FloatIfStr(Projection(data.items, "taux_chomage", "2026", 77000)),
             bdf_chomage_2027 |-> Projection(data.items, "taux_chomage", "2027", 76000),
             bdf_pib_2026 |-> FloatIfStr(Projection(data.items, "pib_croissance", "2026", 10000)),
             current_smic_brut |-> Get(DictGet(data.items, "smic", <<>>), "montant_brut", 182303),
             current_smic_net |-> Get(DictGet(data.items, "smic", <<>>), "montant_net", 144311)])

V3Inflation(a, dt) ==
    predict_inflation(dt, a.inflation_actuel, a.bdf_inflation_2026, a.bdf_inflation_2027, 12)

V3Chomage(a, dt) ==
    predict_unemployment(dt, a.chomage_actuel, a.bdf_chomage_2026, a.bdf_chomage_2027, 4)

V3Smic(a, inflation_pred, dt) ==
    predict_smic(dt, a.current_smic_brut, a.current_smic_net, inflation_pred.predictions,
                 a.bdf_inflation_2026, a.bdf_inflation_2027)

generate_scenarios(inflation_central, inflation_lower, inflation_upper, chomage_central, chomage_lower, chomage_upper) ==
    Scenarios(inflation_lower, inflation_central, inflation_upper,
              chomage_lower, chomage_central, chomage_upper)

V3Scenarios(inflation_pred, chomage_pred) ==
    Ok(generate_scenarios(Last(inflation_pred.predictions), Last(inflation_pred.lower_bound),
                          Last(inflation_pred.upper_bound), Last(chomage_pred.predictions),
                          Last(chomage_pred.lower_bound), Last(chomage_pred.upper_bound)))

\* The figures the notes quote
generate_notes_lecture(inflation_actuel, inflation_prev_6m, smic_events, chomage_actuel, chomage_prev, difficultes_recrutement) ==
    [inflation_prev_6m |-> inflation_prev_6m,
     tendance_inflation |->
         IF inflation_prev_6m > inflation_actuel THEN "en hausse"
         ELSE IF Abs(inflation_prev_6m - inflation_actuel) < 3000 THEN "stable"
              ELSE "en baisse",
     smic_event |-> IF smic_events # <<>> THEN <<smic_events[1]>> ELSE <<>>,
     chomage_prev |-> chomage_prev,
     tendance_chomage |-> Tendance(chomage_prev, chomage_actuel),
     difficultes_recrutement |-> difficultes_recrutement,
     augmentation_mini |-> Max(2 * U, inflation_prev_6m + 5000)]

V3Notes(a, inflation_pred, smic_pred, chomage_pred) ==
    Ok(generate_notes_lecture(a.inflation_actuel, inflation_pred.predictions[6],
                              smic_pred.events, a.chomage_actuel,
                              Last(chomage_pred.predictions), a.difficultes_recrutement))

V3Assemble(a, inflation_pred, smic_pred, chomage_pred, scenarios, notes_lecture, dt) ==
    Ok([generated_at |-> dt,
        model_version |-> "CFTC v3.0",
        inflation |-> [actuel |-> a.inflation_actuel,
                       prevision_6m |-> inflation_pred.predictions[6],
                       prevision_12m |-> Last(inflation_pred.predictions),
                       tendance |-> Tendance(Last(inflation_pred.predictions),
                                             a.inflation_actuel),
                       mensuel |-> inflation_pred],
        smic |-> smic_pred,
        chomage |-> [actuel |-> a.chomage_actuel,
                     prevision_q4 |-> Last(chomage_pred.predictions),
                     tendance |-> Tendance(Last(chomage_pred.predictions), a.chomage_actuel),
                     trimestriel |-> chomage_pred],
        scenarios |-> scenarios,
        notes_lecture |-> notes_lecture])

\* The loop meant to convert the string projections of v4 rebinds its loop
\* variable only: the projections stay as the dataset gives them
V4Extract(data) ==
    IF data.type # "dict" THEN Raise("AttributeError")
    ELSE Ok([inflation_actuel |->
                 Get(DictGet(data.items, "indicateurs_cles", <<>>), "inflation_annuelle", 15000),
             chomage_actuel |->
                 Get(DictGet(data.items, "indicateurs_cles", <<>>), "taux_chomage_actuel", 75000),
             climat_affaires |->
                 Get(DictGet(data.items, "climat_affaires", <<>>), "valeur_actuelle", 100 * U),
             difficultes_recrutement |->
                 Get(DictGet(data.items, "indicateurs_cles", <<>>), "difficultes_recrutement", 50 * U),
             bdf_inflation_2026 |-> Projection(data.items, "inflation_ipch", "2026", 14000),
             bdf_inflation_2027 |-> Projection(data.items, "inflation_ipch", "2027", 16000),
             bdf_chomage_2026 |-> Projection(data.items, "taux_chomage", "2026", 77000),
             bdf_chomage_2027 |-> Projection(data.items, "taux_chomage", "2027", 75000),
             pib_2026 |-> FloatIfStr(Projection(data.items, "pib_croissance", "2026", 10000)),
             current_smic_brut |-> Get(DictGet(data.items, "smic", <<>>), "montant_brut", 182303),
             current_smic_net |-> Get(DictGet(data.items, "smic", <<>>), "montant_net", 144311)])

V4Inflation(a, dt, g) ==
    predict_inflation_v4(dt, a.inflation_actuel, a.bdf_inflation_2026, a.bdf_inflation_2027,
                         a.climat_affaires, "stable", g)

V4Chomage(a, dt, g) ==
    predict_chomage_v4(dt, a.chomage_actuel, a.bdf_chomage_2026, a.bdf_chomage_2027,
                       a.climat_affaires, a.difficultes_recrutement, g)

V4Smic(a, inflation, dt, g) ==
    predict_smic_v4(dt, a.current_smic_brut, a.current_smic_net, inflation,
                    a.bdf_inflation_2027, g)

\* ELASTICITIES, in 1/10000
ELASTICITIES ==
    [petrole_10pct |-> [inflation |-> 1500, chomage |-> 500],
     gaz_50pct |-> [inflation |-> 3000, chomage |-> 800],
     taux_bce_1pt |-> [inflation |-> -1500, chomage |-> 2500]]

WhatIf(probabilite, inflation_12m, chomage_q4) ==
    [probabilite |-> probabilite,
     impact |-> [inflation_12m |-> Round1(inflation_12m), chomage_q4 |-> Round1(chomage_q4)]]

\* The what-if scenarios: their probability (in percent) and impact; adding a
\* number to a projection given as a string is a TypeError
generate_whatif_scenarios(base_inflation, base_chomage, bdf_inflation, bdf_chomage) ==
    IF bdf_inflation.t = "str" \/ bdf_chomage.t = "str" THEN Raise("TypeError")
    ELSE Ok([choc_petrolier |->
                 WhatIf(15, bdf_inflation.v + ELASTICITIES.petrole_10pct.inflation * 3,
                        bdf_chomage.v + ELASTICITIES.petrole_10pct.chomage * 3),
             recession_ue |-> WhatIf(20, bdf_inflation.v - 4000, bdf_chomage.v + 5000),
             hausse_taux |->
                 WhatIf(10, bdf_inflation.v + ELASTICITIES.taux_bce_1pt.inflation,
                        bdf_chomage.v + ELASTICITIES.taux_bce_1pt.chomage),
             reprise_forte |-> WhatIf(25, bdf_inflation.v + 3000, bdf_chomage.v - 4000),
             crise_energie |->
                 WhatIf(10, bdf_inflation.v + ELASTICITIES.gaz_50pct.inflation * 2,
                        bdf_chomage.v + ELASTICITIES.gaz_50pct.chomage * 2)])

\* The what-if scenarios in the order the dictionary holds them
WhatIfNames ==
    <<"choc_petrolier", "recession_ue", "hausse_taux", "reprise_forte", "crise_energie">>

V4WhatIf(a) ==
    generate_whatif_scenarios(a.inflation_actuel, a.chomage_actuel,
                              a.bdf_inflation_2026, a.bdf_chomage_2026)

V4Scenarios(inflation, chomage) ==
    Ok(Scenarios(Last(inflation.mensuel.p25), inflation.prevision_12m,
                 Last(inflation.mensuel.p75), Last(chomage.trimestriel.p25),
                 chomage.prevision_q4, Last(chomage.trimestriel.p75)))

\* dict[key] on every key of keys: a key the dictionary lacks is a KeyError
Lacks(dict, keys) == \E key \in keys : key \notin DOMAIN dict

\* The exception the subscripts of the notes raise, in the order the notes
\* are built, or "none": only 'probabilites' and 'events' are read with .get
NotesV4Exception(inflation, smic, chomage, whatif) ==
    IF Lacks(inflation, {"prevision_12m", "mensuel"}) THEN "KeyError"
    ELSE IF Lacks(inflation.mensuel, {"lower_bound", "upper_bound"}) THEN "KeyError"
    ELSE IF inflation.mensuel.lower_bound = <<>> \/ inflation.mensuel.upper_bound = <<>>
         THEN "IndexError"
    ELSE IF /\ Get(smic, "events", <<>>) # <<>>
            /\ Lacks(smic.events[1], {"date", "estimated_new_smic_brut",
                                      "estimated_increase_pct", "fourchette"})
         THEN "KeyError"
    ELSE IF Lacks(chomage, {"prevision_q4", "trimestriel", "tendance"}) THEN "KeyError"
    ELSE IF Lacks(chomage.trimestriel, {"lower_bound", "upper_bound"}) THEN "KeyError"
    ELSE IF chomage.trimestriel.lower_bound = <<>> \/ chomage.trimestriel.upper_bound = <<>>
         THEN "IndexError"
    ELSE IF DOMAIN whatif = {} THEN "ValueError"
    ELSE "none"

\* The figures the notes quote
NotesV4(inflation, events, chomage, whatif) ==
    Ok([prob_sous_2 |-> Get(Get(inflation, "probabilites", <<>>), "inflation_sous_2pct", 500),
        inflation_12m |-> inflation.prevision_12m,
        smic_event |-> IF events # <<>> THEN <<events[1]>> ELSE <<>>,
        chomage_q4 |-> chomage.prevision_q4,
        risque_haussier |-> Last(inflation.mensuel.upper_bound) > 25000,
        most_likely |->
            WhatIfNames[CHOOSE i \in 1..Len(WhatIfNames) :
                            /\ \A j \in 1..Len(WhatIfNames) :
                                   whatif[WhatIfNames[j]].probabilite
                                       <= whatif[WhatIfNames[i]].probabilite
                            /\ \A j \in 1..(i - 1) :
                                   whatif[WhatIfNames[j]].probabilite
                                       < whatif[WhatIfNames[i]].probabilite],
        recommandation |->
            Max(inflation.prevision_12m + 5000,
                IF events # <<>> THEN events[1].estimated_increase_pct
                ELSE 2 * U)])

generate_notes_lecture_v4(inflation, smic, chomage, whatif) ==
    IF NotesV4Exception(inflation, smic, chomage, whatif) # "none"
    THEN Raise(NotesV4Exception(inflation, smic, chomage, whatif))
    ELSE NotesV4(inflation, Get(smic, "events", <<>>), chomage, whatif)

V4Assemble(inflation, smic, chomage, scenarios, whatif, notes, dt) ==
    Ok([generated_at |-> dt,
        model_version |-> "CFTC v4.0 (Monte Carlo)",
        n_simulations |-> N_SIMULATIONS,
        inflation |-> inflation,
        smic |-> smic,
        chomage |-> chomage,
        scenarios |-> scenarios,
        whatif_scenarios |-> whatif,
        notes_lecture |-> notes])

----------------------------------------------------------------------------
(* main and the __main__ block.  call.argv is sys.argv[1:], call.store the *)
(* store as it was when main was called.  An exception raised by a stage   *)
(* reaches the __main__ block, which prints it and calls exit(1).          *)

\* data_path and output_path of the __main__ block (<<>> is None)
DataPath(argv) == IF Len(argv) > 0 THEN argv[1] ELSE "public/data.json"

OutputPath(argv) == IF Len(argv) > 1 THEN <<argv[2]>> ELSE <<>>

\* output = output_path or data_path
Output(output_path, data_path) ==
    IF output_path = <<>> \/ output_path[1] = "" THEN data_path ELSE output_path[1]

\* The paths of the store; nothing can be created under "nodir/"
Paths == {"public/data.json", "alt.json", "out.json"}

\* Faulty variant: the output file is opened for writing as soon as the dataset is loaded
Stages_open_first(version) ==
    <<"load", "open", "extract", "inflation", "chomage", "smic", "whatif", "scenarios",
      "notes", "assemble", "merge", "dump", "summary">>

\* The stages of main in program order
Stages(version) ==
    CASE version = "v2" ->
           <<"load", "extract", "inflation", "smic", "chomage", "scenarios", "notes",
             "assemble", "merge", "open", "dump", "summary">>
      [] version = "v3" ->
           <<"load", "extract", "inflation", "chomage", "smic", "scenarios", "notes",
             "assemble", "merge", "open", "dump", "summary">>
      [] version = "v4" ->
           <<"load", "extract", "inflation", "chomage", "smic", "whatif", "scenarios",
             "notes", "assemble", "merge", "open", "dump", "summary">>

At(stage) ==
    /\ call.fn = "main" /\ ret = NoRet
    /\ pc \in 1..Len(Stages(call.version))
    /\ Stages(call.version)[pc] = stage

\* Faulty variant: the stage takes one draw from the generator
Pure_drawing(res) == [res |-> res, rng |-> RngNext(rng)]

\* A stage that makes no call to random: the generator leaves as it entered
Pure(res) == [res |-> res, rng |-> rng]

\* exit(code) of the __main__ block, after main returned or raised val
Exit(val, code) == ret' = [fn |-> "main", val |-> val, exit |-> code] /\ pc' = 0

\* The stage ends: its value is bound to `name`, or its exception ends the run
Advance(name, r) ==
    /\ rng' = r.rng
    /\ IF r.res.ok
       THEN mem' = (name :> r.res.v) @@ mem /\ pc' = pc + 1 /\ ret' = ret
       ELSE mem' = mem /\ Exit(r.res, 1)
    /\ UNCHANGED <<now, call, files>>

Load ==
    /\ At("load")
    /\ Advance("data", Pure(json_load(files[DataPath(call.argv)])))

ExtractAnchors ==
    /\ At("extract")
    /\ Advance("anchors",
               Pure(CASE call.version = "v2" -> V2Extract(mem.data, now)
                      [] call.version = "v3" -> V3Extract(mem.data)
                      [] call.version = "v4" -> V4Extract(mem.data)))

ForecastInflation ==
    /\ At("inflation")
    /\ Advance("inflation",
               CASE call.version = "v2" -> Pure(V2Inflation(mem.anchors, now))
                 [] call.version = "v3" -> Pure(V3Inflation(mem.anchors, now))
                 [] call.version = "v4" -> V4Inflation(mem.anchors, now, rng))

ForecastUnemployment ==
    /\ At("chomage")
    /\ Advance("chomage",
               CASE call.version = "v2" -> Pure(V2Chomage(mem.anchors))
                 [] call.version = "v3" -> Pure(V3Chomage(mem.anchors, now))
                 [] call.version = "v4" -> V4Chomage(mem.anchors, now, rng))

ForecastSmic ==
    /\ At("smic")
    /\ Advance("smic",
               CASE call.version = "v2" -> Pure(V2Smic(mem.anchors, mem.inflation, now))
                 [] call.version = "v3" -> Pure(V3Smic(mem.anchors, mem.inflation, now))
                 [] call.version = "v4" -> V4Smic(mem.anchors, mem.inflation, now, rng))

GenerateWhatIf ==
    /\ At("whatif")
    /\ Advance("whatif", Pure(V4WhatIf(mem.anchors)))

GenerateScenarios ==
    /\ At("scenarios")
    /\ Advance("scenarios",
               Pure(CASE call.version = "v2" -> V2Scenarios(mem.inflation, mem.chomage)
                      [] call.version = "v3" -> V3Scenarios(mem.inflation, mem.chomage)
                      [] call.version = "v4" -> V4Scenarios(mem.inflation, mem.chomage)))

GenerateNotes ==
    /\ At("notes")
    /\ Advance("notes",
               Pure(CASE call.version = "v2" ->
                           V2NaoArguments(mem.anchors, mem.inflation, mem.smic, mem.chomage)
                      [] call.version = "v3" ->
                           V3Notes(mem.anchors, mem.inflation, mem.smic, mem.chomage)
                      [] call.version = "v4" ->
                           generate_notes_lecture_v4(mem.inflation, mem.smic, mem.chomage,
                                                     mem.whatif)))

Assemble ==
    /\ At("assemble")
    /\ Advance("predictions",
               Pure(CASE call.version = "v2" ->
                           V2Assemble(mem.anchors, mem.inflation, mem.smic, mem.chomage,
                                      mem.scenarios, mem.notes, now)
                      [] call.version = "v3" ->
                           V3Assemble(mem.anchors, mem.inflation, mem.smic, mem.chomage,
                                      mem.scenarios, mem.notes, now)
                      [] call.version = "v4" ->
                           V4Assemble(mem.inflation, mem.smic, mem.chomage, mem.scenarios,
                                      mem.whatif, mem.notes, now)))

\* Faulty variant: the new bundle is merged into the previous one, which is kept
SetForecasts_keep(data, predictions) ==
    [type |-> "dict",
     items |-> IF DictHas(data.items, "previsions_cftc") THEN data.items
               ELSE DictSet(data.items, "previsions_cftc", predictions)]

\* data['previsions_cftc'] = predictions
SetForecasts(data, predictions) ==
    [type |-> "dict", items |-> DictSet(data.items, "previsions_cftc", predictions)]

Merge ==
    /\ At("merge")
    /\ Advance("data", Pure(Ok(SetForecasts(mem.data, mem.predictions))))

\* with open(output, 'w') as f: the file is created or truncated
OpenOutput ==
    /\ At("open")
    /\ IF Output(OutputPath(call.argv), DataPath(call.argv)) \in Paths
       THEN /\ files' = [files EXCEPT ![Output(OutputPath(call.argv), DataPath(call.argv))] =
                              FileText("empty", <<>>)]
            /\ pc' = pc + 1
            /\ UNCHANGED ret
       ELSE /\ Exit(Raise("FileNotFoundError"), 1)
            /\ UNCHANGED files
    /\ UNCHANGED <<now, rng, call, mem>>

\* json.dump(data, f, ...) and the end of the with block
DumpOutput ==
    /\ At("dump")
    /\ files' = [files EXCEPT ![Output(OutputPath(call.argv), DataPath(call.argv))] =
                      json_dump(mem.data)]
    /\ pc' = pc + 1
    /\ UNCHANGED <<now, rng, call, ret, mem>>

\* The summary is printed and main returns data
Summary ==
    /\ At("summary")
    /\ Exit(Ok(mem.data), 0)
    /\ UNCHANGED <<now, rng, call, files, mem>>

----------------------------------------------------------------------------
(* Specification of the pipeline: one version's main is run once on a run  *)
(* date, over a store whose data file is one of InputFiles.                *)

Versions == {"v2", "v3", "v4"}

MainDates == {Date(2025, 12, 2), Date(2026, 6, 15), Date(2027, 1, 1)}

AllKeys == {SectionKeys[i] : i \in 1..Len(SectionKeys)}

\* The data file: complete datasets in each variant; datasets where sections
\* are absent (down to the empty document) or empty; a dataset whose text
\* repeats a key; then what cannot be loaded or is no JSON object
InputFiles ==
    <<FileText("object", Members(AllKeys, "usual")),
      FileText("object", Members(AllKeys, "deflation")),
      FileText("object", Members(AllKeys, "surge")),
      FileText("object", Members(AllKeys, "strings")),
      FileText("object", Members(AllKeys, "short")),
      FileText("object", Members({}, "usual")),
      FileText("object", Members(AllKeys \ {"indicateurs_cles"}, "usual")),
      FileText("object", Members(AllKeys \ {"inflation_salaires", "previsions_cftc"}, "usual")),
      FileText("object", Members(AllKeys \ {"chomage"}, "usual")),
      FileText("object", Members(AllKeys \ {"smic"}, "usual")),
      FileText("object", Members(AllKeys \ {"previsions"}, "usual")),
      FileText("object", Members(AllKeys \ {"climat_affaires"}, "usual")),
      FileText("object", Members({"chomage", "last_updated"}, "usual")),
      FileText("object", Members({"previsions"}, "deflation")),
      FileText("object", Members({"indicateurs_cles", "chomage"}, "surge")),
      FileText("object", Hollowed(Members(AllKeys, "usual"), "chomage")),
      FileText("object", Hollowed(Members(AllKeys, "usual"), "indicateurs_cles")),
      FileText("object", Hollowed(Members(AllKeys, "usual"), "previsions")),
      FileText("object", Hollowed(Hollowed(Members(AllKeys, "usual"), "smic"),
                                  "inflation_salaires")),
      FileText("object", Members(AllKeys, "usual")
                         \o <<<<"last_updated", Date(2026, 2, 9)>>,
                              <<"previsions_cftc", [model_version |-> "repeated"]>>>>),
      Missing,
      FileText("garbage", <<>>),
      FileText("empty", <<>>),
      FileText("array", <<>>)>>

\* The data files whose dataset only lacks sections or has them empty
LackingInputs == 6..19

\* What out.json holds before the run
OutFiles == <<Missing, FileText("object", Members({"last_updated"}, "usual"))>>

MainRuns ==
    [version : Versions, now : MainDates, argv : {<<>>},
     input : 1..Len(InputFiles), out : {1}]
    \cup [version : Versions, now : {Date(2026, 6, 15)},
          argv : {<<"alt.json">>, <<"public/data.json", "out.json">>,
                  <<"public/data.json", "">>, <<"alt.json", "nodir/out.json">>},
          input : {1, 20, 22}, out : {1, 2}]

Store(run) ==
    [p \in Paths |-> IF p = DataPath(run.argv) THEN InputFiles[run.input]
                     ELSE IF p = "out.json" THEN OutFiles[run.out]
                     ELSE Missing]

\* The module is imported (v4 seeds the generator with the date) and the
\* __main__ block calls main
Init ==
    /\ \E run \in MainRuns :
          /\ now = run.now
          /\ files = Store(run)
          /\ call = [fn |-> "main", version |-> run.version, argv |-> run.argv,
                     input |-> run.input, store |-> Store(run)]
    /\ rng = Seed(now)
    /\ ret = NoRet
    /\ pc = 1
    /\ mem = <<>>

Next ==
    \/ Load
    \/ ExtractAnchors
    \/ ForecastInflation
    \/ ForecastUnemployment
    \/ ForecastSmic
    \/ GenerateWhatIf
    \/ GenerateScenarios
    \/ GenerateNotes
    \/ Assemble
    \/ Merge
    \/ OpenOutput
    \/ DumpOutput
    \/ Summary

Spec == Init /\ [][Next]_vars

\* main ended
Ended == call.fn = "main" /\ ret # NoRet

\* The names main binds before it may write, apart from v4's what-if scenarios
StageNames == {"data", "anchors", "inflation", "chomage", "smic", "scenarios", "notes",
               "predictions"}

----------------------------------------------------------------------------
\* C6: in the scenarios an orchestrator (v2, v3, v4) assembles,
\* optimiste <= central <= pessimiste, for inflation_12m and for chomage_q4.
C6_ScenarioOrdering ==
    (call.fn = "main" /\ "scenarios" \in DOMAIN mem) =>
        /\ mem.scenarios.optimiste.inflation_12m <= mem.scenarios.central.inflation_12m
        /\ mem.scenarios.central.inflation_12m <= mem.scenarios.pessimiste.inflation_12m
        /\ mem.scenarios.optimiste.chomage_q4 <= mem.scenarios.central.chomage_q4
        /\ mem.scenarios.central.chomage_q4 <= mem.scenarios.pessimiste.chomage_q4

----------------------------------------------------------------------------
\* C7: on a dataset that only lacks sections or has them empty (the empty
\* document and a short unemployment history included), every orchestrator
\* completes without raising and its bundle holds the inflation, chomage,
\* smic and scenarios sections, the defaults standing for what is missing.
C7_ToleratesMissing ==
    (Ended /\ call.input \in LackingInputs \cup {5}) =>
        /\ ret.val.ok
        /\ {"inflation", "chomage", "smic", "scenarios"} \subseteq DOMAIN mem.predictions
        /\ call.input = 6 => /\ mem.predictions.inflation.actuel = 15000
                             /\ mem.predictions.smic.current.brut = 182303

----------------------------------------------------------------------------
\* C8: main writes only after the dataset was loaded and every stage
\* completed; when loading fails or a stage raises, the run ends with an
\* error exit and the store is exactly as it was.
C8_WriteAfterStages ==
    call.fn = "main" =>
        /\ files # call.store => StageNames \subseteq DOMAIN mem
        /\ (ret # NoRet /\ ~ret.val.ok) => (ret.exit = 1 /\ files = call.store)

\* A stage after the inflation forecaster raised: error exit, store untouched
C8_Witness ==
    /\ Ended /\ ret.exit = 1
    /\ "inflation" \in DOMAIN mem /\ "predictions" \notin DOMAIN mem
    /\ files = call.store

----------------------------------------------------------------------------
\* The written document against the loaded one, and the rest of the store
C9_Written(loaded, written, out) ==
    /\ DictHas(written, "previsions_cftc")
    /\ DictGet(written, "previsions_cftc", <<>>) = mem.predictions
    /\ Len(written) = Len(loaded) + (IF DictHas(loaded, "previsions_cftc") THEN 0 ELSE 1)
    /\ \A i \in 1..Len(loaded) :
          /\ written[i][1] = loaded[i][1]
          /\ loaded[i][1] # "previsions_cftc" => written[i][2] = loaded[i][2]
    /\ Len(call.argv) < 2 => out = DataPath(call.argv)
    /\ \A p \in Paths \ {out} : files[p] = call.store[p]

\* C9: after a successful run the written document is the loaded document
\* with the one key 'previsions_cftc' set to the new bundle (a previous
\* value replaced, not merged), every other key and value unchanged; it is
\* written to the input path when no output path is given, and no other
\* file changes.
C9_MergeFrame ==
    (Ended /\ ret.exit = 0) =>
        C9_Written(json_load(call.store[DataPath(call.argv)]).v.items,
                   json_load(files[Output(OutputPath(call.argv), DataPath(call.argv))]).v.items,
                   Output(OutputPath(call.argv), DataPath(call.argv)))

\* A successful run on a dataset that already held a forecast bundle and
\* repeated a key in its text
C9_Witness ==
    /\ Ended /\ ret.exit = 0
    /\ call.input = 20
    /\ files[DataPath(call.argv)].kind = "object"

----------------------------------------------------------------------------
\* main of v3 or v4 is about to call its notes generator
AtNotes ==
    /\ call.fn = "main" /\ call.version \in {"v3", "v4"} /\ ret = NoRet
    /\ pc \in 1..Len(Stages(call.version))
    /\ Stages(call.version)[pc] = "notes"

\* The notes generator of the version called on the values m binds
NotesOf(version, m) ==
    IF version = "v3" THEN V3Notes(m.anchors, m.inflation, m.smic, m.chomage)
    ELSE generate_notes_lecture_v4(m.inflation, m.smic, m.chomage, m.whatif)

----------------------------------------------------------------------------
\* The bundle v4 builds from dataset `data` on day dt when the generator
\* starts in state g: the draws go to the inflation simulation, then to the
\* unemployment simulation, then to the SMIC perturbation
BundleV4(data, dt, g) ==
    LET a == V4Extract(data).v
        inflation == V4Inflation(a, dt, g)
        chomage == V4Chomage(a, dt, inflation.rng)
        smic == V4Smic(a, inflation.res.v, dt, chomage.rng)
        whatif == V4WhatIf(a).v
    IN  V4Assemble(inflation.res.v, smic.res.v, chomage.res.v,
                   V4Scenarios(inflation.res.v, chomage.res.v).v, whatif,
                   generate_notes_lecture_v4(inflation.res.v, smic.res.v, chomage.res.v,
                                             whatif).v, dt).v

Undated(bundle) == [bundle EXCEPT !.generated_at = <<>>]

V4Run == call.fn = "main" /\ call.version = "v4"

----------------------------------------------------------------------------
\* The probability, in tenths of a percent, is the share of the final values
\* strictly below (above) the threshold, and lies in [0, 100]
ShareBelow(p, final_values, threshold) ==
    p = Fraction(CountBelow(final_values, threshold), Len(final_values)) /\ p \in 0..1000

ShareAbove(p, final_values, threshold) ==
    p = Fraction(CountAbove(final_values, threshold), Len(final_values)) /\ p \in 0..1000

\* C21: every probability the v4 forecasters publish (inflation_sous_2pct,
\* inflation_au_dessus_3pct, chomage_sous_7pct, chomage_au_dessus_8pct) is
\* 100 * (number of simulated trajectories whose final value is strictly
\* below, respectively above, the threshold) / n_sims, rounded to one
\* decimal, and lies in [0, 100].
C21_TerminalProbabilities ==
    /\ (V4Run /\ "inflation" \in DOMAIN mem) =>
           /\ ShareBelow(mem.inflation.probabilites.inflation_sous_2pct,
                         mem.inflation.final_values, 2 * U)
           /\ ShareAbove(mem.inflation.probabilites.inflation_au_dessus_3pct,
                         mem.inflation.final_values, 3 * U)
    /\ (V4Run /\ "chomage" \in DOMAIN mem) =>
           /\ ShareBelow(mem.chomage.probabilites.chomage_sous_7pct,
                         mem.chomage.final_values, 7 * U)
           /\ ShareAbove(mem.chomage.probabilites.chomage_au_dessus_8pct,
                         mem.chomage.final_values, 8 * U)

----------------------------------------------------------------------------
(* Specification of the notes generators: one generator is called once on  *)
(* forecast components that are complete or lack a field.                  *)

\* The dictionary without one of its keys
Without(dict, key) == [k \in DOMAIN dict \ {key} |-> dict[k]]

\* An inflation forecast of median p and last upper bound u
NotesInflation(p, u) ==
    [prevision_12m |-> p,
     mensuel |-> [lower_bound |-> <<p - 5000>>, upper_bound |-> <<u>>],
     probabilites |-> [inflation_sous_2pct |-> 600]]

NotesInflations ==
    {NotesInflation(p, u) : p \in {-10000, 14000, 30000}, u \in {20000, 30000}}
    \cup {Without(NotesInflation(14000, 20000), key) :
              key \in {"probabilites", "prevision_12m", "mensuel"}}

\* The January event of an increase of pct
NotesEvent(pct) == V4SmicEvents(2027, 182303, pct, 2 * U)[1]

NotesIncreases == {10000, 20000, 45000}

NotesSmics ==
    {[events |-> <<NotesEvent(pct)>>] : pct \in NotesIncreases}
    \cup {[events |-> <<>>], <<>>}

NotesChomage ==
    [prevision_q4 |-> 76000, tendance |-> "stable",
     trimestriel |-> [lower_bound |-> <<74000>>, upper_bound |-> <<78000>>]]

NotesChomages ==
    {NotesChomage} \cup {Without(NotesChomage, key) : key \in {"trimestriel", "prevision_q4"}}

NotesWhatIfs ==
    {generate_whatif_scenarios(15000, 75000, Num(14000), Num(77000)).v, <<>>}

NotesCalls ==
    [fn : {"generate_notes_lecture_v4"}, inflation : NotesInflations, smic : NotesSmics,
     chomage : NotesChomages, whatif : NotesWhatIfs]
    \cup [fn : {"generate_notes_lecture"}, inflation_actuel : {15000},
          inflation_prev_6m : {-10000, 14000, 30000},
          smic_events : {<<>>} \cup {<<NotesEvent(pct)>> : pct \in NotesIncreases},
          chomage_actuel : {75000}, chomage_prev : {73000, 75000, 78000},
          difficultes_recrutement : {50 * U}]

NotesInit ==
    /\ now = IdleDate
    /\ rng = Seed(now)
    /\ ret = NoRet
    /\ call \in NotesCalls
    /\ NoMain

CallGenerateNotesLecture ==
    /\ call.fn = "generate_notes_lecture" /\ ret = NoRet
    /\ Returns(call.fn,
               Ok(generate_notes_lecture(call.inflation_actuel, call.inflation_prev_6m,
                                         call.smic_events, call.chomage_actuel,
                                         call.chomage_prev, call.difficultes_recrutement)))
    /\ UNCHANGED <<now, rng, call, mainVars>>

CallGenerateNotesLectureV4 ==
    /\ call.fn = "generate_notes_lecture_v4" /\ ret = NoRet
    /\ Returns(call.fn,
               generate_notes_lecture_v4(call.inflation, call.smic, call.chomage,
                                         call.whatif))
    /\ UNCHANGED <<now, rng, call, mainVars>>

NotesNext ==
    \/ CallGenerateNotesLecture
    \/ CallGenerateNotesLectureV4

SpecNotes == NotesInit /\ [][NotesNext]_vars

\* C24: generate_notes_lecture_v4 returns its notes without raising when a
\* forecast component lacks a field (inflation without 'probabilites',
\* 'prevision_12m' or 'mensuel', SMIC with an empty or absent 'events',
\* chomage without 'trimestriel' or 'prevision_q4', an empty what-if
\* catalogue): each missing field has a default.
C24_NotesTolerateMissing ==
    (ret # NoRet /\ ret.fn = "generate_notes_lecture_v4") => ret.val.ok

\* C25: the recommended minimum ask of the notes is max(forecast inflation
\* + margin, projected SMIC increase of the first revaluation event), hence
\* never below that increase, in v4 generate_notes_lecture_v4 and in v3
\* generate_notes_lecture.
C25_RecommendedAsk ==
    /\ (ret # NoRet /\ ret.fn = "generate_notes_lecture_v4" /\ ret.val.ok
           /\ Get(call.smic, "events", <<>>) # <<>>) =>
           ret.val.v.recommandation
               = Max(call.inflation.prevision_12m + 5000,
                     call.smic.events[1].estimated_increase_pct)
    /\ (ret # NoRet /\ ret.fn = "generate_notes_lecture" /\ call.smic_events # <<>>) =>
           ret.val.v.augmentation_mini
               = Max(call.inflation_prev_6m + 5000,
                     call.smic_events[1].estimated_increase_pct)

----------------------------------------------------------------------------
\* The names the stages bind, in the order Load, Extract, Inflation,
\* Unemployment, SMIC, Scenarios, Notes, Assemble
StageOrder ==
    <<"data", "anchors", "inflation", "chomage", "smic", "scenarios", "notes", "predictions">>

\* C26: every run of main (v2, v3, v4) executes its stages once each in the
\* order Load, Extract, Inflation, Unemployment, SMIC, Scenarios, Notes,
\* Assemble, Merge, Persist: what the stages have bound at any time is a
\* prefix of that order (the SMIC forecast exists only once the inflation
\* and unemployment forecasts do, the scenarios only once all three do), and
\* the store is written only when everything is bound.
C26_StageOrder ==
    call.fn = "main" =>
        /\ \E n \in 0..Len(StageOrder) :
               DOMAIN mem \ {"whatif"} = {StageOrder[i] : i \in 1..n}
        /\ files # call.store => DOMAIN mem \ {"whatif"} = {StageOrder[i] : i \in 1..Len(StageOrder)}

----------------------------------------------------------------------------
\* The bundle v3 builds from dataset `data` on day dt
BundleV3(data, dt) ==
    LET a == V3Extract(data).v
        inflation == V3Inflation(a, dt).v
        chomage == V3Chomage(a, dt).v
        smic == V3Smic(a, inflation, dt).v
    IN  V3Assemble(a, inflation, smic, chomage, V3Scenarios(inflation, chomage).v,
                   V3Notes(a, inflation, smic, chomage).v, dt).v

\* The run read the dataset whose institutional targets are numeric strings;
\* the first dataset holds the same targets as numbers
StringTargetsRun ==
    /\ Ended /\ call.version \in {"v3", "v4"}
    /\ call.store[DataPath(call.argv)] = FileText("object", Members(AllKeys, "strings"))

\* C28: institutional targets given as numeric strings (2026 and 2027,
\* inflation and unemployment) are converted before use: the v3 and v4
\* orchestrators complete without raising and return the forecast of the
\* equivalent numeric dataset.
C28_StringTargets ==
    StringTargetsRun =>
        /\ ret.exit = 0
        /\ mem.predictions
               = IF call.version = "v3"
                 THEN BundleV3(json_load(FileText("object", Members(AllKeys, "usual"))).v, now)
                 ELSE BundleV4(json_load(FileText("object", Members(AllKeys, "usual"))).v,
                               now, Seed(now))

----------------------------------------------------------------------------
\* C30: at every instant of a run of main whose output path is its input
\* path, the dataset file holds either the complete original document or the
\* complete updated document: no reader and no interruption finds it empty
\* or truncated.
C30_AtomicPersist ==
    (call.fn = "main"
        /\ Output(OutputPath(call.argv), DataPath(call.argv)) = DataPath(call.argv)) =>
        \/ files[DataPath(call.argv)] = call.store[DataPath(call.argv)]
        \/ /\ "predictions" \in DOMAIN mem
           /\ files[DataPath(call.argv)] = json_dump(mem.data)

=============================================================================
